---- MODULE Spec2Model ----
(***************************************************************************)
(* Ceiling-based progression engine of tempo (src-tauri/src/progression.rs *)
(* and the commands that call it).  The stored state is the table          *)
(* progression_dimensions (one row per dimension), the append-only table   *)
(* progression_history and the clock; the operations are the four          *)
(* mutations apply_progression, apply_regression, record_ceiling_touch and *)
(* update_ceiling, and the read-side ProgressionSummary::compute.          *)
(***************************************************************************)
EXTENDS Integers, Sequences, FiniteSets, TLC

VARIABLES
    now,        \* Utc::now(), in clock ticks (TicksPerDay ticks to a day)
    dims,       \* table progression_dimensions, ORDER BY id
    history,    \* table progression_history, in insertion order
    dbops,      \* calls so far that wrote to the database or failed in it
    progressed, \* when apply_progression last returned Ok (None before the first)
    call,       \* the last step taken: the operation, its arguments and what it returned
    inflight    \* the calls that are between two of their database statements

vars == <<now, dims, history, dbops, progressed, call, inflight>>

-----------------------------------------------------------------------------
(* Bounds of the model *)

MaxTicks == 1       \* ticks the clock runs beyond the window a specification needs
TicksPerDay == 2    \* clock resolution: ticks in one day
MaxDbOps == 2       \* calls of one behaviour that write to the database or fail in it
MaxProgressions == 4 \* progressions in a row that a behaviour of SpecRunaway makes
MaxHeartRate == 210 \* the heart rates given to HrZone::from_hr are 0..MaxHeartRate

-----------------------------------------------------------------------------
(* Option<T> *)

None == <<>>
Some(x) == <<x>>
IsSome(o) == o # <<>>
IsNone(o) == o = <<>>
Unwrap(o) == o[1]

(* (Utc::now() - t).num_days(): whole days, truncated toward zero *)
NumDays(ticks) ==
    IF ticks >= 0 THEN ticks \div TicksPerDay ELSE -((-ticks) \div TicksPerDay)

-----------------------------------------------------------------------------
(* i32 <-> String.  to_string gives the canonical decimal text; parse      *)
(* accepts the canonical text, a leading "+" and leading zeros, and fails  *)
(* on anything else.                                                       *)

MaxNum == 140       \* the decimal texts the model can parse are those of -MaxNum..MaxNum
ParseRange == (0 - MaxNum)..MaxNum

I32ToString(n) == ToString(n)

CanonicalText == {I32ToString(n) : n \in ParseRange}

NonCanonicalText == [s \in {"+85", "090"} |-> IF s = "+85" THEN 85 ELSE 90]

DecimalValue == [s \in CanonicalText |-> CHOOSE n \in ParseRange : I32ToString(n) = s]

ParseI32(s) ==
    IF s \in CanonicalText
    THEN Some(DecimalValue[s])
    ELSE IF s \in DOMAIN NonCanonicalText
         THEN Some(NonCanonicalText[s])
         ELSE None

-----------------------------------------------------------------------------
(* StepConfig *)

SequenceCfg(seq) == [type |-> "sequence", sequence |-> seq]
IncrementCfg(n) == [type |-> "increment", increment |-> n, unit |-> "min"]
RegulatedCfg(opts) == [type |-> "regulated", options |-> opts, unit |-> "min"]

(* sequence.iter().position(|v| v == x): the first index holding x *)
Position(seq, x) ==
    IF \E i \in 1..Len(seq) : seq[i] = x
    THEN Some(CHOOSE i \in 1..Len(seq) : seq[i] = x /\ \A j \in 1..(i - 1) : seq[j] # x)
    ELSE None

(* next_value that starts a sequence again past its end *)
StepNextValueWraps(cfg, current) ==
    CASE cfg.type = "sequence" ->
            LET idx == Position(cfg.sequence, current) IN
            IF IsNone(idx) THEN None
            ELSE Some(cfg.sequence[(Unwrap(idx) % Len(cfg.sequence)) + 1])
      [] cfg.type = "increment" ->
            LET cur == ParseI32(current) IN
            IF IsNone(cur) THEN None
            ELSE Some(I32ToString(Unwrap(cur) + cfg.increment))
      [] OTHER -> None

StepNextValue(cfg, current) ==
    CASE cfg.type = "sequence" ->
            LET idx == Position(cfg.sequence, current) IN
            IF IsNone(idx) THEN None
            ELSE IF Unwrap(idx) + 1 <= Len(cfg.sequence)
                 THEN Some(cfg.sequence[Unwrap(idx) + 1])
                 ELSE None
      [] cfg.type = "increment" ->
            LET cur == ParseI32(current) IN
            IF IsNone(cur) THEN None
            ELSE Some(I32ToString(Unwrap(cur) + cfg.increment))
      [] OTHER -> None

(* prev_value that steps a Regulated dimension back to its first option *)
StepPrevValueRegulated(cfg, current) ==
    CASE cfg.type = "sequence" ->
            LET idx == Position(cfg.sequence, current) IN
            IF IsNone(idx) THEN None
            ELSE IF Unwrap(idx) > 1
                 THEN Some(cfg.sequence[Unwrap(idx) - 1])
                 ELSE None
      [] cfg.type = "increment" ->
            LET cur == ParseI32(current) IN
            IF IsNone(cur) THEN None
            ELSE LET prev == Unwrap(cur) - cfg.increment IN
                 IF prev > 0 THEN Some(I32ToString(prev)) ELSE None
      [] OTHER -> IF Len(cfg.options) > 0 THEN Some(I32ToString(cfg.options[1])) ELSE None

StepPrevValue(cfg, current) ==
    CASE cfg.type = "sequence" ->
            LET idx == Position(cfg.sequence, current) IN
            IF IsNone(idx) THEN None
            ELSE IF Unwrap(idx) > 1
                 THEN Some(cfg.sequence[Unwrap(idx) - 1])
                 ELSE None
      [] cfg.type = "increment" ->
            LET cur == ParseI32(current) IN
            IF IsNone(cur) THEN None
            ELSE LET prev == Unwrap(cur) - cfg.increment IN
                 IF prev > 0 THEN Some(I32ToString(prev)) ELSE None
      [] OTHER -> None

I32Max == 2147483647

StepIsAtCeiling(cfg, current, ceiling) ==
    CASE cfg.type = "sequence" ->
            LET c == Position(cfg.sequence, current)
                ceil == Position(cfg.sequence, ceiling) IN
            IF IsSome(c) /\ IsSome(ceil)
            THEN Unwrap(c) >= Unwrap(ceil)
            ELSE current = ceiling
      [] cfg.type = "increment" ->
            LET cur == ParseI32(current)
                ceil == ParseI32(ceiling)
                current_val == IF IsSome(cur) THEN Unwrap(cur) ELSE 0
                ceiling_val == IF IsSome(ceil) THEN Unwrap(ceil) ELSE I32Max IN
            current_val >= ceiling_val
      [] OTHER -> TRUE

-----------------------------------------------------------------------------
(* ProgressionDimension *)

(* dimension_type that takes the stored status for the variant *)
DimensionTypeByStatus(dim) ==
    IF dim.step_config.type = "regulated" /\ dim.status = "at_ceiling"
    THEN "regulated" ELSE "progressive"

DimensionType(dim) ==
    IF dim.step_config.type = "regulated" THEN "regulated" ELSE "progressive"

IsAtCeiling(dim) ==
    StepIsAtCeiling(dim.step_config, dim.current_value, dim.ceiling_value)

NextValue(dim) ==
    IF IsAtCeiling(dim) THEN None
    ELSE StepNextValue(dim.step_config, dim.current_value)

PrevValue(dim) == StepPrevValue(dim.step_config, dim.current_value)

RegressAfterDays == 21
DefaultDaysSinceChange == 30

(* maintenance_due that does not count a ceiling never touched *)
MaintenanceDueOnlyAfterTouch(dim, t) ==
    IF dim.status # "at_ceiling" THEN FALSE
    ELSE IF IsSome(dim.last_ceiling_touch_at)
         THEN NumDays(t - Unwrap(dim.last_ceiling_touch_at)) >= dim.maintenance_cadence_days
         ELSE FALSE

(* maintenance_due: at ceiling and not touched within the cadence *)
MaintenanceDue(dim, t) ==
    IF dim.status # "at_ceiling" THEN FALSE
    ELSE IF IsSome(dim.last_ceiling_touch_at)
         THEN NumDays(t - Unwrap(dim.last_ceiling_touch_at)) >= dim.maintenance_cadence_days
         ELSE TRUE

(* should_regress that asks for more than 21 days *)
ShouldRegressLate(dim, t) ==
    IF dim.status # "at_ceiling" THEN FALSE
    ELSE IF IsSome(dim.last_ceiling_touch_at)
         THEN NumDays(t - Unwrap(dim.last_ceiling_touch_at)) > RegressAfterDays
         ELSE FALSE

(* should_regress: at ceiling and not touched for 21+ days *)
ShouldRegress(dim, t) ==
    IF dim.status # "at_ceiling" THEN FALSE
    ELSE IF IsSome(dim.last_ceiling_touch_at)
         THEN NumDays(t - Unwrap(dim.last_ceiling_touch_at)) >= RegressAfterDays
         ELSE FALSE

DaysSinceChange(dim, t) ==
    IF IsSome(dim.last_change_at)
    THEN NumDays(t - Unwrap(dim.last_change_at))
    ELSE DefaultDaysSinceChange

Min(a, b) == IF a <= b THEN a ELSE b

(* get_regulated_duration: duration option selected by TSB *)
StepRegulatedDuration(cfg, tsb) ==
    IF cfg.type # "regulated" THEN None
    ELSE LET options == cfg.options
             tsb_val == IF IsSome(tsb) THEN Unwrap(tsb) ELSE 0
             first == IF Len(options) > 0 THEN Some(options[1]) ELSE None
             last == IF Len(options) > 0 THEN Some(options[Len(options)]) ELSE None IN
         IF Len(options) >= 2
         THEN IF tsb_val >= 0 THEN last
              ELSE IF tsb_val >= -10 THEN first
              ELSE Some(Min(IF IsSome(first) THEN Unwrap(first) ELSE 30, 40))
         ELSE first

GetRegulatedDuration(dim, tsb) == StepRegulatedDuration(dim.step_config, tsb)

-----------------------------------------------------------------------------
(* AdherenceSummary.  adherence_pct is the ratio completed/expected, kept  *)
(* as the fraction <<numerator, denominator>> in lowest terms.             *)

RECURSIVE Gcd(_, _)
Gcd(a, b) == IF b = 0 THEN a ELSE Gcd(b, a % b)

Ratio(n, d) == LET g == Gcd(n, d) IN IF g = 0 THEN <<0, 1>> ELSE <<n \div g, d \div g>>

(* pct < p/q and pct >= p/q for a fraction pct *)
RatioLt(pct, p, q) == pct[1] * q < p * pct[2]
RatioGe(pct, p, q) == ~RatioLt(pct, p, q)

AdherenceCompute(total_expected, total_completed, key_expected, key_completed, consecutive_low_weeks) ==
    LET adherence_pct == IF total_expected > 0
                         THEN Ratio(total_completed, total_expected)
                         ELSE <<1, 1>>
        key_adherence_good == key_completed >= key_expected
        week_stable == RatioGe(adherence_pct, 3, 4) /\ key_adherence_good
        missed_workouts == IF total_expected > total_completed
                           THEN total_expected - total_completed ELSE 0 IN
    [ total_expected |-> total_expected,
      total_completed |-> total_completed,
      key_expected |-> key_expected,
      key_completed |-> key_completed,
      adherence_pct |-> adherence_pct,
      key_adherence_good |-> key_adherence_good,
      week_stable |-> week_stable,
      missed_workouts |-> missed_workouts,
      consecutive_low_adherence_weeks |-> consecutive_low_weeks ]

AdherenceDefault ==
    [ total_expected |-> 6, total_completed |-> 6, key_expected |-> 3,
      key_completed |-> 3, adherence_pct |-> <<1, 1>>, key_adherence_good |-> TRUE,
      week_stable |-> TRUE, missed_workouts |-> 0,
      consecutive_low_adherence_weeks |-> 0 ]

(* is_unstable that takes the week_stable threshold of 75% *)
IsUnstableBelowStable(adh) == RatioLt(adh.adherence_pct, 3, 4)

IsUnstable(adh) == RatioLt(adh.adherence_pct, 7, 10)

ShouldConsiderRegression(adh) == adh.consecutive_low_adherence_weeks >= 2

-----------------------------------------------------------------------------
(* ProgressionSummary *)

IsKeySessionDimension(name) == name = "long_run"

Reason(text, args) == [text |-> text, args |-> args]

MinDaysBetweenChanges == 7
(* an overlap window of eight days *)
OverlapDaysEight == 7 + 1
OverlapDays == 7
DefaultDaysSinceAny == 30

(* check_criteria that lets a TSB equal to the floor pass *)
CheckCriteriaAtFloor(name, dim, ctx, flg, t) ==
    LET fatigue_threshold == IF name \in {"run_interval", "long_run"} THEN -15 ELSE -10
        hr_stability == IF name = "run_interval" THEN ~flg.intensity_heavy ELSE TRUE
        criteria_met == /\ DaysSinceChange(dim, t) >= MinDaysBetweenChanges
                        /\ ~flg.volume_spike /\ ~flg.volume_drop
                        /\ (IsNone(ctx.tsb) \/ Unwrap(ctx.tsb) >= fatigue_threshold)
                        /\ hr_stability IN
    IF criteria_met
    THEN <<TRUE, Reason("All criteria met", <<>>)>>
    ELSE <<FALSE, Reason("criteria unmet", <<>>)>>

(* check_criteria that does not look at the days since the last change *)
CheckCriteriaAnyDay(name, dim, ctx, flg, t) ==
    LET fatigue_threshold == IF name \in {"run_interval", "long_run"} THEN -15 ELSE -10
        hr_stability == IF name = "run_interval" THEN ~flg.intensity_heavy ELSE TRUE
        criteria_met == /\ ~flg.volume_spike /\ ~flg.volume_drop
                        /\ (IsNone(ctx.tsb) \/ Unwrap(ctx.tsb) > fatigue_threshold)
                        /\ hr_stability IN
    IF criteria_met
    THEN <<TRUE, Reason("All criteria met", <<>>)>>
    ELSE <<FALSE, Reason("criteria unmet", <<>>)>>

(* check_criteria: <<criteria_met, reason>> *)
CheckCriteria(name, dim, ctx, flg, t) ==
    LET days_since_change == DaysSinceChange(dim, t)
        volume_stable == ~flg.volume_spike /\ ~flg.volume_drop
        fatigue_threshold == IF name \in {"run_interval", "long_run"} THEN -15 ELSE -10
        fatigue_low == IsNone(ctx.tsb) \/ Unwrap(ctx.tsb) > fatigue_threshold
        hr_stability == IF name = "run_interval" THEN ~flg.intensity_heavy ELSE TRUE
        criteria_met == /\ days_since_change >= MinDaysBetweenChanges
                        /\ volume_stable /\ fatigue_low /\ hr_stability
        reasons ==
            (IF days_since_change < MinDaysBetweenChanges
             THEN << "{} days since last change (need {})" >> ELSE <<>>)
            \o (IF ~volume_stable THEN << "volume unstable" >> ELSE <<>>)
            \o (IF ~fatigue_low THEN << "TSB too low ({:.1}, need > {:.1})" >> ELSE <<>>)
            \o (IF ~hr_stability THEN << "HR/intensity unstable" >> ELSE <<>>) IN
    IF criteria_met
    THEN <<TRUE, Reason("All criteria met", <<>>)>>
    ELSE <<FALSE, Reason("criteria unmet", reasons)>>

DaysSinceTouchOrZero(dim, t) ==
    IF IsSome(dim.last_ceiling_touch_at)
    THEN NumDays(t - Unwrap(dim.last_ceiling_touch_at)) ELSE 0

(* The if / else-if chain of build_dimension_status: <<engine_decision, reason>> *)
DecideProgressive(dim, ctx, flg, adh, last_prog_dim, days_since_any, t) ==
    LET is_at_ceiling == IsAtCeiling(dim)
        maintenance_due == MaintenanceDue(dim, t)
        should_regress == ShouldRegress(dim, t)
        criteria == CheckCriteria(dim.name, dim, ctx, flg, t)
        overlap_blocked == /\ IsSome(last_prog_dim)
                           /\ Unwrap(last_prog_dim) # dim.name
                           /\ days_since_any < OverlapDays IN
    IF should_regress
    THEN <<"Regress", Reason("Haven't touched ceiling in {} days, stepping back",
                             <<I32ToString(DaysSinceTouchOrZero(dim, t))>>)>>
    ELSE IF ShouldConsiderRegression(adh) /\ IsSome(PrevValue(dim))
    THEN <<"Regress", Reason("{} consecutive low-adherence weeks",
                             <<I32ToString(adh.consecutive_low_adherence_weeks)>>)>>
    ELSE IF is_at_ceiling
    THEN IF maintenance_due
         THEN <<"MaintenanceDue",
                Reason("At ceiling ({}), maintenance due - touch this level soon",
                       <<dim.ceiling_value>>)>>
         ELSE <<"AtCeiling", Reason("At ceiling ({}), maintaining", <<dim.ceiling_value>>)>>
    ELSE IF IsUnstable(adh)
    THEN <<"HoldDueToUnstableWeek",
           Reason("Week had {}% adherence (need 70%)",
                  <<I32ToString((adh.adherence_pct[1] * 100) \div adh.adherence_pct[2])>>)>>
    ELSE IF ~adh.key_adherence_good /\ IsKeySessionDimension(dim.name)
    THEN <<"HoldDueToMissedKeySession", Reason("Key session missed this week", <<>>)>>
    ELSE IF overlap_blocked
    THEN <<"HoldForNow", Reason("Another dimension progressed {} days ago (need 7)",
                                <<I32ToString(days_since_any)>>)>>
    ELSE IF ~criteria[1]
    THEN <<"Hold", criteria[2]>>
    ELSE IF ~adh.week_stable
    THEN <<"HoldForNow", Reason("Week not stable (missed sessions or low adherence)", <<>>)>>
    ELSE <<"ProgressAllowed", Reason("All criteria met", <<>>)>>

BuildDimensionStatus(dim, ctx, flg, adh, last_prog_dim, days_since_any, t) ==
    IF DimensionType(dim) = "regulated"
    THEN LET regulated_duration == GetRegulatedDuration(dim, ctx.tsb) IN
         [ name |-> dim.name,
           dimension_type |-> "regulated",
           current |-> dim.current_value,
           ceiling |-> dim.ceiling_value,
           status |-> "at_ceiling",
           engine_decision |-> "Regulated",
           reason |-> Reason("Duration regulated by TSB ({}): {} min recommended",
                             <<I32ToString(IF IsSome(regulated_duration)
                                           THEN Unwrap(regulated_duration) ELSE 45)>>),
           next_value |-> None,
           days_since_change |-> DaysSinceChange(dim, t),
           maintenance_due |-> FALSE,
           regulated_duration |-> regulated_duration ]
    ELSE LET decided == DecideProgressive(dim, ctx, flg, adh, last_prog_dim,
                                          days_since_any, t) IN
         [ name |-> dim.name,
           dimension_type |-> "progressive",
           current |-> dim.current_value,
           ceiling |-> dim.ceiling_value,
           status |-> dim.status,
           engine_decision |-> decided[1],
           reason |-> decided[2],
           next_value |-> NextValue(dim),
           days_since_change |-> DaysSinceChange(dim, t),
           maintenance_due |-> MaintenanceDue(dim, t),
           regulated_duration |-> None ]

(* The first dimension that has a last_change_at, whatever its age *)
MostRecentFirst(ds) ==
    LET changed == {i \in 1..Len(ds) : IsSome(ds[i].last_change_at)} IN
    IF changed = {} THEN None
    ELSE Some(CHOOSE i \in changed : \A j \in changed : i <= j)

(* max_by_key over the dimensions that have a last_change_at: the index of *)
(* the greatest timestamp, the last one of several equally great           *)
MostRecent(ds) ==
    LET changed == {i \in 1..Len(ds) : IsSome(ds[i].last_change_at)} IN
    IF changed = {} THEN None
    ELSE Some(CHOOSE i \in changed :
                \A j \in changed :
                    \/ Unwrap(ds[j].last_change_at) < Unwrap(ds[i].last_change_at)
                    \/ (Unwrap(ds[j].last_change_at) = Unwrap(ds[i].last_change_at) /\ j <= i))

SummaryCompute(ds, ctx, flg, adh, t) ==
    LET most_recent == MostRecent(ds)
        last_progression_dimension ==
            IF IsSome(most_recent) THEN Some(ds[Unwrap(most_recent)].name) ELSE None
        days_since_any_progression ==
            IF IsSome(most_recent)
            THEN NumDays(t - Unwrap(ds[Unwrap(most_recent)].last_change_at))
            ELSE DefaultDaysSinceAny IN
    [ dimensions |-> [i \in 1..Len(ds) |->
                        BuildDimensionStatus(ds[i], ctx, flg, adh,
                                             last_progression_dimension,
                                             days_since_any_progression, t)],
      last_progression_dimension |-> last_progression_dimension,
      days_since_any_progression |-> days_since_any_progression,
      adherence |-> adh ]

-----------------------------------------------------------------------------
(* Database operations *)

Ok(v) == [ok |-> TRUE, value |-> Some(v), err |-> ""]
OkUnit == [ok |-> TRUE, value |-> None, err |-> ""]
Err(e) == [ok |-> FALSE, value |-> None, err |-> e]

(* The persistence step of a call that fails: none, the SELECT of          *)
(* load_all_dimensions, the UPDATE of save_dimension or the INSERT of      *)
(* log_progression.                                                        *)
Faults == {"none", "load", "save", "log"}

(* StepConfig::from_json succeeds on the three tagged variants *)
StepConfigParses(cfg) == cfg.type \in {"sequence", "increment", "regulated"}

(* status_str.parse().unwrap_or_default() *)
ParseStatus(s) == IF s \in {"building", "at_ceiling", "regressing"} THEN s ELSE "building"

(* load_all_dimensions: every row, or the first error *)
LoadAllDimensions(rows, fault) ==
    IF fault = "load" THEN Err("Failed to load dimensions")
    ELSE IF \E i \in 1..Len(rows) : ~StepConfigParses(rows[i].step_config)
    THEN Err("Failed to parse step config")
    ELSE Ok([i \in 1..Len(rows) |-> [rows[i] EXCEPT !.status = ParseStatus(@)]])

(* load_dimension: the first row of that name *)
LoadDimension(rows, name, fault) ==
    LET all == LoadAllDimensions(rows, fault) IN
    IF ~all.ok THEN all
    ELSE LET ds == Unwrap(all.value)
             idx == {i \in 1..Len(ds) : ds[i].name = name} IN
         IF idx = {} THEN Err("Dimension not found")
         ELSE Ok(ds[CHOOSE i \in idx : \A j \in idx : i <= j])

(* save_dimension whose UPDATE has no WHERE clause *)
SaveDimensionEveryRow(rows, dim, t) ==
    [i \in 1..Len(rows) |->
        [dim EXCEPT !.id = rows[i].id, !.name = rows[i].name, !.updated_at = t]]

(* save_dimension: UPDATE ... WHERE name = ? *)
SaveDimension(rows, dim, t) ==
    [i \in 1..Len(rows) |->
        IF rows[i].name = dim.name
        THEN [dim EXCEPT !.id = rows[i].id, !.updated_at = t]
        ELSE rows[i]]

(* log_progression: the row INSERTed into progression_history *)
HistoryRow(dimension_name, previous_value, new_value, change_type, trigger_workout_id) ==
    [ dimension_name |-> dimension_name,
      previous_value |-> previous_value,
      new_value |-> new_value,
      change_type |-> change_type,
      trigger_workout_id |-> trigger_workout_id,
      context_snapshot_json |-> None ]

(* The two writes with a log_progression that puts the new row first *)
SaveThenLogNewestFirst(rows, hist, dim, row, value, fault, t) ==
    IF fault = "save"
    THEN [dims |-> rows, history |-> hist, ret |-> Err("Failed to save dimension")]
    ELSE IF fault = "log"
    THEN [dims |-> SaveDimension(rows, dim, t), history |-> hist,
          ret |-> Err("Failed to log progression")]
    ELSE [dims |-> SaveDimension(rows, dim, t), history |-> <<row>> \o hist,
          ret |-> value]

(* save_dimension(..).await?; log_progression(..).await?; Ok(value): the   *)
(* tables and the return value after the two writes, the first of which    *)
(* to fail ends the call.                                                  *)
SaveThenLog(rows, hist, dim, row, value, fault, t) ==
    IF fault = "save"
    THEN [dims |-> rows, history |-> hist, ret |-> Err("Failed to save dimension")]
    ELSE IF fault = "log"
    THEN [dims |-> SaveDimension(rows, dim, t), history |-> hist,
          ret |-> Err("Failed to log progression")]
    ELSE [dims |-> SaveDimension(rows, dim, t), history |-> Append(hist, row),
          ret |-> value]

Unchanged(rows, hist, ret) == [dims |-> rows, history |-> hist, ret |-> ret]

-----------------------------------------------------------------------------
(* Progression actions: the tables and the return value after the call *)

(* apply_progression that flips the status at the ceiling but forgets the touch stamp *)
ApplyProgressionNoTouchStamp(rows, hist, dimension_name, trigger_workout_id, fault, t) ==
    LET loaded == LoadDimension(rows, dimension_name, fault) IN
    IF ~loaded.ok THEN Unchanged(rows, hist, loaded)
    ELSE LET dim == Unwrap(loaded.value)
             next == NextValue(dim) IN
         IF IsNone(next) THEN Unchanged(rows, hist, Err("No next value available"))
         ELSE LET next_val == Unwrap(next)
                  moved == [dim EXCEPT !.current_value = next_val,
                                       !.last_change_at = Some(t)]
                  stamped == IF IsAtCeiling(moved)
                             THEN [moved EXCEPT !.status = "at_ceiling"]
                             ELSE moved IN
              SaveThenLog(rows, hist, stamped,
                          HistoryRow(dimension_name, dim.current_value, next_val, "progress",
                                     trigger_workout_id),
                          Ok(next_val), fault, t)

(* apply_progression that stores Building below the ceiling *)
ApplyProgressionSetsBuilding(rows, hist, dimension_name, trigger_workout_id, fault, t) ==
    LET loaded == LoadDimension(rows, dimension_name, fault) IN
    IF ~loaded.ok THEN Unchanged(rows, hist, loaded)
    ELSE LET dim == Unwrap(loaded.value)
             next == NextValue(dim) IN
         IF IsNone(next) THEN Unchanged(rows, hist, Err("No next value available"))
         ELSE LET next_val == Unwrap(next)
                  moved == [dim EXCEPT !.current_value = next_val,
                                       !.last_change_at = Some(t)]
                  stamped == IF IsAtCeiling(moved)
                             THEN [moved EXCEPT !.status = "at_ceiling",
                                                !.last_ceiling_touch_at = Some(t)]
                             ELSE [moved EXCEPT !.status = "building"] IN
              SaveThenLog(rows, hist, stamped,
                          HistoryRow(dimension_name, dim.current_value, next_val, "progress",
                                     trigger_workout_id),
                          Ok(next_val), fault, t)

ApplyProgression(rows, hist, dimension_name, trigger_workout_id, fault, t) ==
    LET loaded == LoadDimension(rows, dimension_name, fault) IN
    IF ~loaded.ok THEN Unchanged(rows, hist, loaded)
    ELSE LET dim == Unwrap(loaded.value)
             next == NextValue(dim) IN
         IF IsNone(next) THEN Unchanged(rows, hist, Err("No next value available"))
         ELSE LET next_val == Unwrap(next)
                  prev_val == dim.current_value
                  moved == [dim EXCEPT !.current_value = next_val,
                                       !.last_change_at = Some(t)]
                  stamped == IF IsAtCeiling(moved)
                             THEN [moved EXCEPT !.status = "at_ceiling",
                                                !.last_ceiling_touch_at = Some(t)]
                             ELSE moved IN
              SaveThenLog(rows, hist, stamped,
                          HistoryRow(dimension_name, prev_val, next_val, "progress",
                                     trigger_workout_id),
                          Ok(next_val), fault, t)

(* record_ceiling_touch that stamps last_change_at as well *)
RecordCeilingTouchStampsChange(rows, hist, dimension_name, fault, t) ==
    LET loaded == LoadDimension(rows, dimension_name, fault) IN
    IF ~loaded.ok THEN Unchanged(rows, hist, loaded)
    ELSE LET dim == Unwrap(loaded.value) IN
         IF dim.status # "at_ceiling"
         THEN Unchanged(rows, hist, Err("is not at ceiling"))
         ELSE SaveThenLog(rows, hist,
                          [dim EXCEPT !.last_ceiling_touch_at = Some(t),
                                      !.last_change_at = Some(t)],
                          HistoryRow(dimension_name, dim.current_value, dim.current_value,
                                     "ceiling_touch", None),
                          OkUnit, fault, t)

(* record_ceiling_touch that writes the touch before it looks at the status *)
RecordCeilingTouchUnchecked(rows, hist, dimension_name, fault, t) ==
    LET loaded == LoadDimension(rows, dimension_name, fault) IN
    IF ~loaded.ok THEN Unchanged(rows, hist, loaded)
    ELSE LET dim == Unwrap(loaded.value)
             written == SaveThenLog(rows, hist,
                                    [dim EXCEPT !.last_ceiling_touch_at = Some(t)],
                                    HistoryRow(dimension_name, dim.current_value,
                                               dim.current_value, "ceiling_touch", None),
                                    OkUnit, fault, t) IN
         IF written.ret.ok /\ dim.status # "at_ceiling"
         THEN [written EXCEPT !.ret = Err("is not at ceiling")]
         ELSE written

RecordCeilingTouch(rows, hist, dimension_name, fault, t) ==
    LET loaded == LoadDimension(rows, dimension_name, fault) IN
    IF ~loaded.ok THEN Unchanged(rows, hist, loaded)
    ELSE LET dim == Unwrap(loaded.value) IN
         IF dim.status # "at_ceiling"
         THEN Unchanged(rows, hist, Err("is not at ceiling"))
         ELSE SaveThenLog(rows, hist, [dim EXCEPT !.last_ceiling_touch_at = Some(t)],
                          HistoryRow(dimension_name, dim.current_value, dim.current_value,
                                     "ceiling_touch", None),
                          OkUnit, fault, t)

(* apply_regression that leaves the status as it was *)
ApplyRegressionKeepStatus(rows, hist, dimension_name, fault, t) ==
    LET loaded == LoadDimension(rows, dimension_name, fault) IN
    IF ~loaded.ok THEN Unchanged(rows, hist, loaded)
    ELSE LET dim == Unwrap(loaded.value)
             prev == PrevValue(dim) IN
         IF IsNone(prev) THEN Unchanged(rows, hist, Err("No previous value available"))
         ELSE SaveThenLog(rows, hist,
                          [dim EXCEPT !.current_value = Unwrap(prev),
                                      !.last_change_at = Some(t)],
                          HistoryRow(dimension_name, dim.current_value, Unwrap(prev),
                                     "regress", None),
                          Ok(Unwrap(prev)), fault, t)

ApplyRegression(rows, hist, dimension_name, fault, t) ==
    LET loaded == LoadDimension(rows, dimension_name, fault) IN
    IF ~loaded.ok THEN Unchanged(rows, hist, loaded)
    ELSE LET dim == Unwrap(loaded.value)
             prev == PrevValue(dim) IN
         IF IsNone(prev) THEN Unchanged(rows, hist, Err("No previous value available"))
         ELSE LET prev_val == Unwrap(prev)
                  old_val == dim.current_value IN
              SaveThenLog(rows, hist,
                          [dim EXCEPT !.current_value = prev_val,
                                      !.last_change_at = Some(t),
                                      !.status = "building"],
                          HistoryRow(dimension_name, old_val, prev_val, "regress", None),
                          Ok(prev_val), fault, t)

(* update_ceiling that stores the new ceiling and keeps the status it read *)
UpdateCeilingKeepStatus(rows, hist, dimension_name, new_ceiling, fault, t) ==
    LET loaded == LoadDimension(rows, dimension_name, fault) IN
    IF ~loaded.ok THEN Unchanged(rows, hist, loaded)
    ELSE LET dim == Unwrap(loaded.value) IN
         SaveThenLog(rows, hist, [dim EXCEPT !.ceiling_value = new_ceiling],
                     HistoryRow(dimension_name, dim.ceiling_value, new_ceiling,
                                "ceiling_update", None),
                     OkUnit, fault, t)

UpdateCeiling(rows, hist, dimension_name, new_ceiling, fault, t) ==
    LET loaded == LoadDimension(rows, dimension_name, fault) IN
    IF ~loaded.ok THEN Unchanged(rows, hist, loaded)
    ELSE LET dim == Unwrap(loaded.value)
             old_ceiling == dim.ceiling_value
             raised == [dim EXCEPT !.ceiling_value = new_ceiling] IN
         SaveThenLog(rows, hist,
                     [raised EXCEPT !.status = IF IsAtCeiling(raised)
                                               THEN "at_ceiling" ELSE "building"],
                     HistoryRow(dimension_name, old_ceiling, new_ceiling,
                                "ceiling_update", None),
                     OkUnit, fault, t)

-----------------------------------------------------------------------------
(* The stored rows the model starts from *)

Row(id, name, current_value, ceiling_value, step_config, status, last_change_at, last_ceiling_touch_at, maintenance_cadence_days) ==
    [ id |-> id,
      name |-> name,
      current_value |-> current_value,
      ceiling_value |-> ceiling_value,
      step_config |-> step_config,
      status |-> status,
      last_change_at |-> last_change_at,
      last_ceiling_touch_at |-> last_ceiling_touch_at,
      maintenance_cadence_days |-> maintenance_cadence_days,
      created_at |-> 0,
      updated_at |-> 0 ]

Days(d) == d * TicksPerDay

(* The rows of the unit tests and of seed_test_progression_dimensions *)
RunIntervalSequence == <<"4:1", "5:1", "6:1", "continuous_45">>
RunIntervalCadence == 7
LongRunCadence == 14
RideCadence == 10
FixtureChangeDaysAgo == 10

RunIntervalRow(current, last_change_at) ==
    Row(1, "run_interval", current, "continuous_45", SequenceCfg(RunIntervalSequence),
        "building", last_change_at, None, RunIntervalCadence)

LongRunRow(current, increment, last_change_at) ==
    Row(2, "long_run", current, "90", IncrementCfg(increment),
        "building", last_change_at, None, LongRunCadence)

RideRow(last_change_at) ==
    Row(3, "z2_ride", "45", "60", RegulatedCfg(<<30, 45, 60>>),
        "at_ceiling", last_change_at, None, RideCadence)

FixtureChange == Some(0 - Days(FixtureChangeDaysAgo))

(* Tables of one progressive dimension and the regulated one *)
SeededTables ==
    { <<row, RideRow(None)>> :
        row \in {RunIntervalRow(cur, FixtureChange) : cur \in {"4:1", "6:1"}}
                \cup {LongRunRow("85", inc, FixtureChange) : inc \in {5, 10}} }

Idle == [op |-> "init", args |-> <<>>, ret |-> [ok |-> TRUE, value |-> None, err |-> ""]]

(* No call is between two of its statements: each call runs to its end     *)
(* before the next one starts.                                             *)
NoCalls == [before |-> <<>>, calls |-> <<>>]

Init ==
    /\ now = 0
    /\ dims \in SeededTables
    /\ history = <<>>
    /\ dbops = 0
    /\ progressed = None
    /\ call = Idle
    /\ inflight = NoCalls

-----------------------------------------------------------------------------
(* Inputs of the calls *)

Names == {dims[i].name : i \in 1..Len(dims)} \cup {"nonexistent"}
TriggerWorkoutIds == {Some(1)}
NewCeilings == {"6:1", "85"}

PersistenceErrors ==
    {"Failed to load dimensions", "Failed to save dimension", "Failed to log progression"}

ValidationErrors ==
    {"Dimension not found", "No next value available", "No previous value available",
     "is not at ceiling"}

(* Whether the call wrote to the database or failed in it: it returned Ok  *)
(* after save_dimension and log_progression, or a persistence error.       *)
TouchedDb(ret) == ret.ok \/ ret.err \in PersistenceErrors

(* A mutation call: the tables become what the call leaves, and the call   *)
(* and its return value are recorded.                                      *)
Mutation(op, args, out, cap) ==
    /\ TouchedDb(out.ret) => dbops < cap
    /\ dims' = out.dims
    /\ history' = out.history
    /\ dbops' = IF TouchedDb(out.ret) THEN dbops + 1 ELSE dbops
    /\ progressed' = IF op = "apply_progression" /\ out.ret.ok THEN Some(now) ELSE progressed
    /\ call' = [op |-> op, args |-> args, ret |-> out.ret]
    /\ UNCHANGED <<now, inflight>>

(* Time passes *)
Tick(step, horizon) ==
    /\ now + step <= horizon
    /\ now' = now + step
    /\ call' = [op |-> "tick", args |-> <<>>, ret |-> OkUnit]
    /\ UNCHANGED <<dims, history, dbops, progressed, inflight>>

CallArgs(dimension_name, new_ceiling, trigger_workout_id) ==
    [dimension_name |-> dimension_name, new_ceiling |-> new_ceiling,
     trigger_workout_id |-> trigger_workout_id]

(* commands::progress_dimension *)
progress_dimension(dimension_name, trigger_workout_id, fault, cap) ==
    Mutation("apply_progression", CallArgs(dimension_name, "", trigger_workout_id),
             ApplyProgression(dims, history, dimension_name, trigger_workout_id, fault, now),
             cap)

(* commands::regress_dimension *)
regress_dimension(dimension_name, fault, cap) ==
    Mutation("apply_regression", CallArgs(dimension_name, "", None),
             ApplyRegression(dims, history, dimension_name, fault, now), cap)

(* commands::touch_ceiling *)
touch_ceiling(dimension_name, fault, cap) ==
    Mutation("record_ceiling_touch", CallArgs(dimension_name, "", None),
             RecordCeilingTouch(dims, history, dimension_name, fault, now), cap)

(* commands::set_dimension_ceiling *)
set_dimension_ceiling(dimension_name, new_ceiling, fault, cap) ==
    Mutation("update_ceiling", CallArgs(dimension_name, new_ceiling, None),
             UpdateCeiling(dims, history, dimension_name, new_ceiling, fault, now), cap)

(* ProgressionSummary::compute on the loaded table, as the analysis        *)
(* command calls it                                                        *)
compute(ctx, flg, adh) ==
    LET loaded == LoadAllDimensions(dims, "none") IN
    /\ loaded.ok
    /\ call' = [op |-> "compute",
                args |-> [dimensions |-> Unwrap(loaded.value), context |-> ctx,
                          flags |-> flg, adherence |-> adh, at |-> now],
                ret |-> SummaryCompute(Unwrap(loaded.value), ctx, flg, adh, now)]
    /\ UNCHANGED <<now, dims, history, dbops, progressed, inflight>>

(* The decision a summary gives for a dimension name ("" when it has none) *)
DecisionFor(sm, name) ==
    LET idx == {i \in 1..Len(sm.dimensions) : sm.dimensions[i].name = name} IN
    IF idx = {} THEN ""
    ELSE sm.dimensions[CHOOSE i \in idx : \A j \in idx : i <= j].engine_decision

TsbValues == {None, Some(-15), Some(-12), Some(-10), Some(5)}
Contexts == {[tsb |-> t] : t \in TsbValues}

Flags(volume_spike, volume_drop, intensity_heavy) ==
    [volume_spike |-> volume_spike, volume_drop |-> volume_drop,
     intensity_heavy |-> intensity_heavy]

FlagSets ==
    {Flags(FALSE, FALSE, FALSE), Flags(TRUE, FALSE, FALSE), Flags(FALSE, TRUE, FALSE),
     Flags(FALSE, FALSE, TRUE)}

(* Weeks completed 2 of 4, 7 of 10 and 3 of 4 sessions (50%, 70%, 75%), with *)
(* the one expected key session missed or done, after 0 or 2 low weeks       *)
Adherences ==
    {AdherenceCompute(e[1], e[2], 1, k, w) :
        e \in {<<4, 2>>, <<10, 7>>, <<4, 3>>}, k \in {0, 1}, w \in {0, 2}}

-----------------------------------------------------------------------------
(* Spec: the four mutation commands, called in any order on any name,      *)
(* while time passes.                                                      *)

Pass == Tick(1, MaxTicks)
Progress == \E n \in Names, w \in TriggerWorkoutIds : progress_dimension(n, w, "none", MaxDbOps)
Regress == \E n \in Names : regress_dimension(n, "none", MaxDbOps)
Touch == \E n \in Names : touch_ceiling(n, "none", MaxDbOps)
SetCeiling == \E n \in Names, c \in NewCeilings : set_dimension_ceiling(n, c, "none", MaxDbOps)

Next == Pass \/ Progress \/ Regress \/ Touch \/ SetCeiling

Spec == Init /\ [][Next]_vars

-----------------------------------------------------------------------------
(* SpecFaults: the same commands when a persistence step of a call may     *)
(* fail (the SELECT, the UPDATE or the INSERT returns an sqlx error).      *)

ProgressF ==
    \E n \in Names, w \in TriggerWorkoutIds, f \in Faults :
        progress_dimension(n, w, f, MaxDbOps)
RegressF == \E n \in Names, f \in Faults : regress_dimension(n, f, MaxDbOps)
TouchF == \E n \in Names, f \in Faults : touch_ceiling(n, f, MaxDbOps)
SetCeilingF ==
    \E n \in Names, c \in NewCeilings, f \in Faults : set_dimension_ceiling(n, c, f, MaxDbOps)

NextFaults == Pass \/ ProgressF \/ RegressF \/ TouchF \/ SetCeilingF

SpecFaults == Init /\ [][NextFaults]_vars

-----------------------------------------------------------------------------
(* SpecEval: ProgressionSummary::compute applied to tables of two rows     *)
(* whose timestamps lie around the 7-day and 21-day thresholds.            *)

Ago(ticks) == Some(0 - ticks)

ChangeTimes == {None, Ago(Days(3)), Ago(Days(MinDaysBetweenChanges) - 1),
                Ago(Days(MinDaysBetweenChanges))}

TouchTimes == {None, Ago(Days(5)), Ago(Days(LongRunCadence) - 1), Ago(Days(LongRunCadence)),
               Ago(Days(RegressAfterDays) - 1), Ago(Days(RegressAfterDays))}

(* A progressive row below its ceiling (building) or at it (at_ceiling) *)
BelowRows(id, name, cfg, ceiling, currents) ==
    {Row(id, name, cur, ceiling, cfg, "building", lc, None, LongRunCadence) :
        cur \in currents, lc \in ChangeTimes}

CeilingRows(id, name, cfg, ceiling) ==
    {Row(id, name, ceiling, ceiling, cfg, "at_ceiling", lc, lt, LongRunCadence) :
        lc \in {None, Ago(Days(3))}, lt \in TouchTimes}

SubjectRows(id) ==
    BelowRows(id, "run_interval", SequenceCfg(RunIntervalSequence), "continuous_45",
              {"4:1", "5:1"})
    \cup CeilingRows(id, "run_interval", SequenceCfg(RunIntervalSequence), "continuous_45")
    \cup BelowRows(id, "long_run", IncrementCfg(5), "90", {"5", "85"})
    \cup CeilingRows(id, "long_run", IncrementCfg(5), "90")
    \cup BelowRows(id, "tempo_run", IncrementCfg(5), "90", {"5", "85"})
    \cup CeilingRows(id, "tempo_run", IncrementCfg(5), "90")

(* The other row of the table: a regulated one beside tempo_run, a         *)
(* progressive one beside the others                                       *)
OtherRows(id, subject) ==
    IF subject.name = "tempo_run"
    THEN {[RideRow(lc) EXCEPT !.id = id] : lc \in ChangeTimes}
    ELSE IF subject.name = "run_interval"
    THEN {[LongRunRow("85", 5, lc) EXCEPT !.id = id] : lc \in ChangeTimes}
    ELSE {[RunIntervalRow("5:1", lc) EXCEPT !.id = id] : lc \in ChangeTimes}

EvalTables ==
    UNION { { <<row, other>> : other \in OtherRows(2, row) } : row \in SubjectRows(1) }
    \cup UNION { { <<other, row>> : other \in OtherRows(1, row) } : row \in SubjectRows(2) }

InitEval ==
    /\ now = 0
    /\ dims \in EvalTables
    /\ history = <<>>
    /\ dbops = 0
    /\ progressed = None
    /\ call = Idle
    /\ inflight = NoCalls

Compute == \E ctx \in Contexts, flg \in FlagSets, adh \in Adherences : compute(ctx, flg, adh)

(* One evaluation per table: the summary is a pure function of the table *)
Evaluate == call = Idle /\ Compute

NextEval == Evaluate

SpecEval == InitEval /\ [][NextEval]_vars

-----------------------------------------------------------------------------
(* SpecGuarded: the caller evaluates the summary and calls                 *)
(* progress_dimension only on a dimension the summary just computed on the *)
(* stored state allows to progress; the other mutations stay free, and the *)
(* clock runs past the 7-day window.                                       *)

GuardedTables ==
    { <<RunIntervalRow("4:1", FixtureChange), LongRunRow("85", 5, FixtureChange)>> }

InitGuarded ==
    /\ now = 0
    /\ dims \in GuardedTables
    /\ history = <<>>
    /\ dbops = 0
    /\ progressed = None
    /\ call = Idle
    /\ inflight = NoCalls

GuardContexts == {[tsb |-> None], [tsb |-> Some(-15)]}
GuardAdherences == {AdherenceCompute(4, 3, 1, 1, 0)}

PassWeek == Tick(1, Days(OverlapDays) + MaxTicks)

EvaluateStored ==
    \E ctx \in GuardContexts, adh \in GuardAdherences :
        compute(ctx, Flags(FALSE, FALSE, FALSE), adh)

ProgressWhenAllowed ==
    \E n \in Names, w \in TriggerWorkoutIds :
        /\ call.op = "compute"
        /\ DecisionFor(call.ret, n) = "ProgressAllowed"
        /\ progress_dimension(n, w, "none", MaxDbOps)

NextGuarded == PassWeek \/ EvaluateStored \/ ProgressWhenAllowed \/ Regress \/ Touch \/ SetCeiling

SpecGuarded == InitGuarded /\ [][NextGuarded]_vars

-----------------------------------------------------------------------------
(* SpecRegulated: ProgressionSummary::compute applied to tables that hold  *)
(* a Regulated dimension of any stored status, timestamps and option list. *)

RegulatedOptions == { <<30, 45, 60>>, <<45, 60>>, <<60>>, <<60, 30>>, <<>> }

RegulatedRows ==
    {Row(1, "z2_ride", "45", "60", RegulatedCfg(opts), st, lc, lt, RideCadence) :
        opts \in RegulatedOptions, st \in {"building", "at_ceiling", "regressing"},
        lc \in {None, Ago(Days(3))}, lt \in {None, Ago(Days(25))}}

RegulatedTables == { <<row, LongRunRow("85", 5, FixtureChange)>> : row \in RegulatedRows }

InitRegulated ==
    /\ now = 0
    /\ dims \in RegulatedTables
    /\ history = <<>>
    /\ dbops = 0
    /\ progressed = None
    /\ call = Idle
    /\ inflight = NoCalls

RegulatedTsb == {None, Some(-11), Some(-10), Some(-1), Some(0), Some(5)}

EvaluateRegulated ==
    /\ call = Idle
    /\ \E t \in RegulatedTsb, flg \in FlagSets, adh \in Adherences :
           compute([tsb |-> t], flg, adh)

NextRegulated == EvaluateRegulated

SpecRegulated == InitRegulated /\ [][NextRegulated]_vars

-----------------------------------------------------------------------------
(* SpecMalformed: the commands and the summary on tables whose second row  *)
(* is well formed, has a step_config_json that does not parse, or has      *)
(* values that do not fit its StepConfig.                                  *)

CorruptCfg == [type |-> "corrupt"]

SecondRows ==
    { RideRow(None),
      [RideRow(None) EXCEPT !.step_config = CorruptCfg],
      Row(3, "tempo_run", "abc", "90", IncrementCfg(5), "building", FixtureChange, None,
          LongRunCadence),
      Row(3, "tempo_run", "85", "ninety", IncrementCfg(5), "building", FixtureChange, None,
          LongRunCadence),
      Row(3, "run_interval", "7:1", "continuous_45", SequenceCfg(RunIntervalSequence),
          "building", FixtureChange, None, RunIntervalCadence) }

MalformedTables == { <<LongRunRow("85", 5, FixtureChange), row>> : row \in SecondRows }

InitMalformed ==
    /\ now = 0
    /\ dims \in MalformedTables
    /\ history = <<>>
    /\ dbops = 0
    /\ progressed = None
    /\ call = Idle
    /\ inflight = NoCalls

EvaluateLoaded ==
    \E ctx \in GuardContexts, adh \in GuardAdherences :
        compute(ctx, Flags(FALSE, FALSE, FALSE), adh)

NextMalformed == Pass \/ Progress \/ Regress \/ Touch \/ SetCeiling \/ EvaluateLoaded

SpecMalformed == InitMalformed /\ [][NextMalformed]_vars

-----------------------------------------------------------------------------
(* SpecConcurrent: two commands invoked at the same time.  The commands    *)
(* are async and share the connection pool; nothing orders the statements  *)
(* of one call against those of another, so the SELECT of load_dimension,  *)
(* the UPDATE of save_dimension and the INSERT of log_progression of the   *)
(* two calls interleave in every way.  The clock stands still.             *)

(* What a mutation leaves and returns when it runs on the table rows *)
Outcome(op, rows, hist, args, t) ==
    CASE op = "apply_progression" ->
            ApplyProgression(rows, hist, args.dimension_name, args.trigger_workout_id,
                             "none", t)
      [] op = "apply_regression" -> ApplyRegression(rows, hist, args.dimension_name, "none", t)
      [] op = "record_ceiling_touch" ->
            RecordCeilingTouch(rows, hist, args.dimension_name, "none", t)
      [] OTHER -> UpdateCeiling(rows, hist, args.dimension_name, args.new_ceiling, "none", t)

Procs == {1, 2}

NotCalled == [pc |-> "idle", op |-> "", args |-> <<>>, dim |-> None, row |-> None, ret |-> OkUnit]

(* Tables of two progressive dimensions: both below the ceiling, the first *)
(* one step below it, the first at it                                      *)
ConcurrentTables ==
    { <<RunIntervalRow("4:1", FixtureChange), LongRunRow("80", 5, FixtureChange)>>,
      <<RunIntervalRow("6:1", FixtureChange), LongRunRow("80", 5, FixtureChange)>>,
      <<[RunIntervalRow("continuous_45", FixtureChange) EXCEPT !.status = "at_ceiling"],
        LongRunRow("80", 5, FixtureChange)>> }

InitConcurrent ==
    /\ now = 0
    /\ dims \in ConcurrentTables
    /\ history = <<>>
    /\ dbops = 0
    /\ progressed = None
    /\ call = Idle
    /\ inflight = [before |-> dims, calls |-> [p \in Procs |-> NotCalled]]

StoredNames == {dims[i].name : i \in 1..Len(dims)}

MutationCalls ==
    {[op |-> "apply_progression", args |-> CallArgs(n, "", w)] :
        n \in StoredNames, w \in TriggerWorkoutIds}
    \cup {[op |-> o, args |-> CallArgs(n, "", None)] :
            o \in {"apply_regression", "record_ceiling_touch"}, n \in StoredNames}
    \cup {[op |-> "update_ceiling", args |-> CallArgs(n, c, None)] :
            n \in StoredNames, c \in NewCeilings}

Step(p, stmt, c) ==
    /\ inflight' = [inflight EXCEPT !.calls[p] = c]
    /\ call' = [op |-> stmt, args |-> [proc |-> p], ret |-> c.ret]
    /\ UNCHANGED <<now, dbops, progressed>>

(* The call starts: load_dimension runs its SELECT, and the call works out *)
(* from the row it read what it will write, or returns its error.          *)
Load(p) ==
    /\ inflight.calls[p].pc = "idle"
    /\ \E m \in MutationCalls :
          LET out == Outcome(m.op, dims, <<>>, m.args, now) IN
          Step(p, "load",
               IF out.ret.ok
               THEN [pc |-> "loaded", op |-> m.op, args |-> m.args,
                     dim |-> Some(CHOOSE r \in {out.dims[i] : i \in 1..Len(out.dims)} :
                                     r.name = m.args.dimension_name),
                     row |-> Some(out.history[1]), ret |-> out.ret]
               ELSE [pc |-> "done", op |-> m.op, args |-> m.args,
                     dim |-> None, row |-> None, ret |-> out.ret])
    /\ UNCHANGED <<dims, history>>

(* save_dimension(pool, &dim).await *)
Save(p) ==
    LET c == inflight.calls[p] IN
    /\ c.pc = "loaded"
    /\ dims' = SaveDimension(dims, Unwrap(c.dim), now)
    /\ Step(p, "save", [c EXCEPT !.pc = "saved"])
    /\ UNCHANGED history

(* log_progression(..).await, and the call returns *)
Log(p) ==
    LET c == inflight.calls[p] IN
    /\ c.pc = "saved"
    /\ history' = Append(history, Unwrap(c.row))
    /\ Step(p, "log", [c EXCEPT !.pc = "done"])
    /\ UNCHANGED dims

LoadStep == \E p \in Procs : Load(p)
SaveStep == \E p \in Procs : Save(p)
LogStep == \E p \in Procs : Log(p)

NextConcurrent == LoadStep \/ SaveStep \/ LogStep

SpecConcurrent == InitConcurrent /\ [][NextConcurrent]_vars

-----------------------------------------------------------------------------
(* SpecRunaway: apply_progression called again and again on one            *)
(* progressive dimension below its ceiling, for step configurations as     *)
(* they can be stored: the seeded ones, an increment of zero or below, a   *)
(* sequence that names a value twice.                                      *)

RepeatingSequence == <<"4:1", "5:1", "4:1", "6:1">>
Increments == {5, 10, 0, -5}

RunawayTables ==
    { <<RunIntervalRow(cur, FixtureChange)>> : cur \in {"4:1", "5:1", "6:1"} }
    \cup { <<[RunIntervalRow(cur, FixtureChange) EXCEPT
                !.step_config = SequenceCfg(RepeatingSequence), !.ceiling_value = "6:1"]>> :
             cur \in {"4:1", "5:1"} }
    \cup { <<LongRunRow(cur, inc, FixtureChange)>> : cur \in {"80", "85"}, inc \in Increments }

InitRunaway ==
    /\ now = 0
    /\ dims \in RunawayTables
    /\ history = <<>>
    /\ dbops = 0
    /\ progressed = None
    /\ call = Idle
    /\ inflight = NoCalls

ProgressAgain ==
    \E n \in Names, w \in TriggerWorkoutIds : progress_dimension(n, w, "none", MaxProgressions)

NextRunaway == Pass \/ ProgressAgain

SpecRunaway == InitRunaway /\ [][NextRunaway]_vars

-----------------------------------------------------------------------------
(* The analysis layer (analysis.rs).  An f64 is an exact fraction <<n, d>>  *)
(* in lowest terms with d > 0; the inputs are whole numbers.               *)

F64(n) == <<n, 1>>
F64Add(a, b) == Ratio(a[1] * b[2] + b[1] * a[2], a[2] * b[2])
F64Sub(a, b) == Ratio(a[1] * b[2] - b[1] * a[2], a[2] * b[2])
F64Mul(a, b) == Ratio(a[1] * b[1], a[2] * b[2])
(* a / b for b > 0 *)
F64Div(a, b) == Ratio(a[1] * b[2], a[2] * b[1])
F64Lt(a, b) == a[1] * b[2] < b[1] * a[2]
F64Max(a, b) == IF F64Lt(a, b) THEN b ELSE a
(* x as i64: truncation toward zero *)
F64AsI64(a) == IF a[1] >= 0 THEN a[1] \div a[2] ELSE -((-a[1]) \div a[2])

(* str::to_lowercase on the activity types of the model *)
ToLowercase(s) == IF s = "Run" THEN "run" ELSE IF s = "Ride" THEN "ride" ELSE s

(* Decimal texts with a fraction *)
FractionText == [s \in {"85.01"} |-> Ratio(8501, 100)]

(* str::parse::<f64> on the texts of the model: the decimal whole numbers  *)
(* and the decimal fractions                                               *)
ParseF64(s) ==
    LET n == ParseI32(s) IN
    IF IsSome(n) THEN Some(F64(Unwrap(n)))
    ELSE IF s \in DOMAIN FractionText THEN Some(FractionText[s])
    ELSE None

UserSettings(max_hr, lthr, training_days_per_week) ==
    [max_hr |-> max_hr, lthr |-> lthr, ftp |-> None,
     training_days_per_week |-> training_days_per_week]

(* effective_lthr: LTHR, or 93% of max_hr truncated *)
EffectiveLthr(settings) ==
    IF IsSome(settings.lthr) THEN settings.lthr
    ELSE IF IsSome(settings.max_hr) THEN Some((Unwrap(settings.max_hr) * 93) \div 100)
    ELSE None

(* HrZone::from_hr with the boundary of Z1 taken into Z1 *)
HrZoneFromHrInclusive(hr, max_hr) ==
    IF hr * 100 <= 60 * max_hr THEN "Z1"
    ELSE IF hr * 100 < 70 * max_hr THEN "Z2"
    ELSE IF hr * 100 < 80 * max_hr THEN "Z3"
    ELSE IF hr * 100 < 90 * max_hr THEN "Z4"
    ELSE "Z5"

(* HrZone::from_hr, for max_hr > 0: pct = hr / max_hr * 100 *)
HrZoneFromHr(hr, max_hr) ==
    IF hr * 100 < 60 * max_hr THEN "Z1"
    ELSE IF hr * 100 < 70 * max_hr THEN "Z2"
    ELSE IF hr * 100 < 80 * max_hr THEN "Z3"
    ELSE IF hr * 100 < 90 * max_hr THEN "Z4"
    ELSE "Z5"

(* WorkoutMetrics::compute *)
WorkoutMetricsCompute(activity_type, duration_seconds, distance_meters, average_hr, average_watts, settings) ==
    LET kind == ToLowercase(activity_type)
        lthr == EffectiveLthr(settings)
        pace_min_per_km ==
            IF kind = "run" /\ IsSome(duration_seconds) /\ IsSome(distance_meters)
               /\ Unwrap(distance_meters) > 0
            THEN Some(Ratio(Unwrap(duration_seconds) * 1000, 60 * Unwrap(distance_meters)))
            ELSE None
        speed_kmh ==
            IF kind = "ride" /\ IsSome(duration_seconds) /\ IsSome(distance_meters)
               /\ Unwrap(duration_seconds) > 0
            THEN Some(Ratio(Unwrap(distance_meters) * 3600, 1000 * Unwrap(duration_seconds)))
            ELSE None
        kj ==
            IF kind = "ride" /\ IsSome(average_watts) /\ IsSome(duration_seconds)
            THEN Some(Ratio(Unwrap(average_watts) * Unwrap(duration_seconds), 1000))
            ELSE None
        rtss ==
            IF IsSome(duration_seconds) /\ IsSome(average_hr) /\ IsSome(lthr) /\ Unwrap(lthr) > 0
            THEN LET dur == Ratio(Unwrap(duration_seconds), 60)
                     intensity == Ratio(Unwrap(average_hr), Unwrap(lthr)) IN
                 Some(F64Mul(F64Div(F64Mul(dur, F64Mul(intensity, intensity)), F64(60)),
                             F64(100)))
            ELSE None
        efficiency ==
            IF kind = "run" /\ IsSome(average_hr) /\ Unwrap(average_hr) > 0
            THEN IF IsSome(pace_min_per_km)
                 THEN Some(F64Div(Unwrap(pace_min_per_km), F64(Unwrap(average_hr))))
                 ELSE None
            ELSE IF kind = "ride" /\ IsSome(average_hr) /\ Unwrap(average_hr) > 0
            THEN IF IsSome(average_watts)
                 THEN Some(Ratio(Unwrap(average_watts), Unwrap(average_hr)))
                 ELSE None
            ELSE None
        cardiac_cost ==
            IF IsSome(average_hr) /\ IsSome(duration_seconds)
            THEN Some(Ratio(Unwrap(average_hr) * Unwrap(duration_seconds), 60))
            ELSE None
        hr_zone ==
            IF IsSome(average_hr) /\ IsSome(settings.max_hr)
            THEN Some(HrZoneFromHr(Unwrap(average_hr), Unwrap(settings.max_hr)))
            ELSE None IN
    [ pace_min_per_km |-> pace_min_per_km, speed_kmh |-> speed_kmh, kj |-> kj, rtss |-> rtss,
      efficiency |-> efficiency, cardiac_cost |-> cardiac_cost, hr_zone |-> hr_zone ]

WorkoutSummary(started_at, activity_type, duration_seconds, rtss, hr_zone) ==
    [ started_at |-> started_at, activity_type |-> activity_type,
      duration_seconds |-> duration_seconds, rtss |-> rtss, hr_zone |-> hr_zone ]

(* workouts.iter().filter(|w| lo <= (now - w.started_at).num_days() < hi) *)
ElapsedDays(w, t) == NumDays(t - w.started_at)

(* A window that takes in the workouts exactly days old *)
WithinInclusive(workouts, t, days) == SelectSeq(workouts, LAMBDA w : ElapsedDays(w, t) <= days)

Within(workouts, t, days) == SelectSeq(workouts, LAMBDA w : ElapsedDays(w, t) < days)

(* Last week taken from the eighth day on *)
LastWeekFromDayEight(days_14, t) == SelectSeq(days_14, LAMBDA w : ElapsedDays(w, t) > 7)

(* days_14.iter().filter(|w| (now - w.started_at).num_days() >= 7) *)
LastWeek(days_14, t) == SelectSeq(days_14, LAMBDA w : ElapsedDays(w, t) >= 7)

(* workouts.iter().filter_map(|w| w.rtss).sum() *)
RECURSIVE RtssTotal(_)
RtssTotal(ws) ==
    IF ws = <<>> THEN F64(0)
    ELSE F64Add(IF IsSome(Head(ws).rtss) THEN Unwrap(Head(ws).rtss) ELSE F64(0),
                RtssTotal(Tail(ws)))

ComputeRtssSum(ws) ==
    LET sum == RtssTotal(ws) IN IF F64Lt(F64(0), sum) THEN Some(sum) ELSE None

(* The average taken in whole numbers, absent when it comes to zero *)
ComputeRtssAvgWhole(ws, days) ==
    LET sum == RtssTotal(ws)
        whole == sum[1] \div (sum[2] * days) IN
    IF whole > 0 THEN Some(F64(whole)) ELSE None

ComputeRtssAvg(ws, days) ==
    LET sum == RtssTotal(ws) IN IF F64Lt(F64(0), sum) THEN Some(F64Div(sum, F64(days))) ELSE None

(* duration_seconds.map(|s| s as f64 / 3600.0).unwrap_or(0.0) *)
HoursOf(w) == IF IsSome(w.duration_seconds) THEN Ratio(Unwrap(w.duration_seconds), 3600) ELSE F64(0)

RECURSIVE HoursTotal(_)
HoursTotal(ws) == IF ws = <<>> THEN F64(0) ELSE F64Add(HoursOf(Head(ws)), HoursTotal(Tail(ws)))

ComputeWeeklyVolume(ws) ==
    [ total_hrs |-> HoursTotal(ws),
      run_hrs |-> HoursTotal(SelectSeq(ws, LAMBDA w : ToLowercase(w.activity_type) = "run")),
      ride_hrs |-> HoursTotal(SelectSeq(ws, LAMBDA w : ToLowercase(w.activity_type) = "ride")),
      other_hrs |-> HoursTotal(SelectSeq(ws, LAMBDA w :
                                   ToLowercase(w.activity_type) \notin {"run", "ride"})) ]

Zones == {"Z1", "Z2", "Z3", "Z4", "Z5"}

(* Minutes of the workouts that have a zone and a duration, over all zones *)
(* or in one                                                               *)
RECURSIVE ZoneMinutes(_, _)
ZoneMinutes(ws, zones) ==
    IF ws = <<>> THEN F64(0)
    ELSE F64Add(IF IsSome(Head(ws).hr_zone) /\ IsSome(Head(ws).duration_seconds)
                   /\ Unwrap(Head(ws).hr_zone) \in zones
                THEN Ratio(Unwrap(Head(ws).duration_seconds), 60) ELSE F64(0),
                ZoneMinutes(Tail(ws), zones))

ComputeIntensityDistribution(ws) ==
    LET total_duration == ZoneMinutes(ws, Zones)
        pct(z) == IF F64Lt(F64(0), total_duration)
                  THEN F64Mul(F64Div(ZoneMinutes(ws, {z}), total_duration), F64(100))
                  ELSE F64(0) IN
    [ z1_pct |-> pct("Z1"), z2_pct |-> pct("Z2"), z3_pct |-> pct("Z3"),
      z4_pct |-> pct("Z4"), z5_pct |-> pct("Z5") ]

RECURSIVE LongestOf(_, _)
LongestOf(ws, kind) ==
    IF ws = <<>> THEN None
    ELSE LET rest == LongestOf(Tail(ws), kind)
             w == Head(ws) IN
         IF ToLowercase(w.activity_type) = kind /\ IsSome(w.duration_seconds)
         THEN LET d == Ratio(Unwrap(w.duration_seconds), 60) IN
              IF IsSome(rest) THEN Some(F64Max(d, Unwrap(rest))) ELSE Some(d)
         ELSE rest

ComputeLongestSession(ws) == [run_min |-> LongestOf(ws, "run"), ride_min |-> LongestOf(ws, "ride")]

(* TrainingContext::compute, called at time t *)
TrainingContextCompute(workouts, settings, t) ==
    LET days_7 == Within(workouts, t, 7)
        days_14 == Within(workouts, t, 14)
        days_28 == Within(workouts, t, 28)
        days_42 == Within(workouts, t, 42)
        atl == ComputeRtssSum(days_7)
        ctl == ComputeRtssAvg(days_42, 42)
        tsb == IF IsSome(ctl) /\ IsSome(atl)
               THEN Some(F64Sub(Unwrap(ctl), F64Div(Unwrap(atl), F64(7))))
               ELSE None
        weekly_volume == ComputeWeeklyVolume(days_7)
        this_week_volume == weekly_volume.total_hrs
        last_week_volume ==
            ComputeWeeklyVolume(LastWeek(days_14, t)).total_hrs
        week_over_week_delta_pct ==
            IF F64Lt(F64(0), last_week_volume)
            THEN Some(F64Mul(F64Div(F64Sub(this_week_volume, last_week_volume),
                                    last_week_volume), F64(100)))
            ELSE IF F64Lt(F64(0), this_week_volume) THEN Some(F64(100))
            ELSE None
        expected_workouts_28d == settings.training_days_per_week * 4
        consistency_pct ==
            IF expected_workouts_28d > 0
            THEN Some(Ratio(Len(days_28) * 100, expected_workouts_28d))
            ELSE None IN
    [ atl |-> atl, ctl |-> ctl, tsb |-> tsb,
      weekly_volume |-> weekly_volume,
      week_over_week_delta_pct |-> week_over_week_delta_pct,
      intensity_distribution |-> ComputeIntensityDistribution(days_7),
      longest_session |-> ComputeLongestSession(days_28),
      consistency_pct |-> consistency_pct,
      workouts_this_week |-> Len(days_7) ]

DefaultLongRunCeilingMin == 90
DefaultZ2RideCeilingMin == 60
GapWindowDays == 21

(* dimensions.iter().find(|d| d.name == name)                              *)
(*     .and_then(|d| d.ceiling_value.parse::<f64>().ok()).unwrap_or(dflt)  *)
CeilingMinutes(dimensions, name, dflt) ==
    LET idx == {i \in 1..Len(dimensions) : dimensions[i].name = name} IN
    IF idx = {} THEN F64(dflt)
    ELSE LET parsed == ParseF64(dimensions[CHOOSE i \in idx : \A j \in idx : i <= j].ceiling_value) IN
         IF IsSome(parsed) THEN Unwrap(parsed) ELSE F64(dflt)

(* The gap flag of one modality *)
SessionGap(days_21, kind, threshold_secs) ==
    LET has_long == \E i \in 1..Len(days_21) :
                        /\ ToLowercase(days_21[i].activity_type) = kind
                        /\ IsSome(days_21[i].duration_seconds)
                        /\ Unwrap(days_21[i].duration_seconds) >= threshold_secs IN
    /\ ~has_long
    /\ \E i \in 1..Len(days_21) : ToLowercase(days_21[i].activity_type) = kind

(* TrainingFlags::compute, called at time t *)
TrainingFlagsCompute(workouts, context, settings, dimensions, t) ==
    LET both == IsSome(context.atl) /\ IsSome(context.ctl)
        chronic_weekly == F64Mul(Unwrap(context.ctl), F64(7))
        long_run_threshold_secs ==
            F64AsI64(F64Mul(CeilingMinutes(dimensions, "long_run", DefaultLongRunCeilingMin),
                            F64(60)))
        long_ride_threshold_secs ==
            F64AsI64(F64Mul(CeilingMinutes(dimensions, "z2_ride", DefaultZ2RideCeilingMin),
                            F64(60)))
        days_21 == Within(workouts, t, GapWindowDays)
        dist == context.intensity_distribution
        high_intensity_pct == F64Add(dist.z3_pct, F64Add(dist.z4_pct, dist.z5_pct))
        low_intensity_pct == F64Add(dist.z1_pct, dist.z2_pct) IN
    [ volume_spike |-> both /\ F64Lt(F64Mul(chronic_weekly, <<6, 5>>), Unwrap(context.atl)),
      volume_drop |-> /\ both
                      /\ F64Lt(Unwrap(context.atl), F64Mul(chronic_weekly, <<7, 10>>))
                      /\ F64Lt(F64(50), chronic_weekly),
      high_fatigue |-> IsSome(context.tsb) /\ F64Lt(Unwrap(context.tsb), F64(-20)),
      peak_form |-> /\ IsSome(context.tsb)
                    /\ F64Lt(F64(5), Unwrap(context.tsb))
                    /\ F64Lt(Unwrap(context.tsb), F64(15)),
      long_run_gap |-> SessionGap(days_21, "run", long_run_threshold_secs),
      long_ride_gap |-> SessionGap(days_21, "ride", long_ride_threshold_secs),
      intensity_heavy |-> F64Lt(F64(40), high_intensity_pct),
      polarized_training |-> F64Lt(F64(80), low_intensity_pct) ]

-----------------------------------------------------------------------------
(* SpecAnalysis: one call of HrZone::from_hr, WorkoutMetrics::compute,     *)
(* TrainingContext::compute or TrainingFlags::compute on inputs drawn from *)
(* the sets below; the flags are computed as the analysis command does,    *)
(* from the context of the same workouts and the loaded dimensions.        *)

HeartRates == 0..MaxHeartRate
MaxHeartRates == {180, 190, 200}

SettingsSet ==
    { UserSettings(Some(190), None, 6), UserSettings(None, None, 6),
      UserSettings(Some(190), Some(170), 0) }

(* Workouts 0, 7, 14, 21 and 42 days old and a tick younger than that *)
WorkoutAges == {0} \cup UNION { {Days(d) - 1, Days(d)} : d \in {7, 14, GapWindowDays, 42} }

(* A 90-minute run, a run with nothing recorded, an hour's ride with a     *)
(* stress score of zero, a swim without a zone, a 50-minute ride, an       *)
(* hour's run and an 85-minute run                                         *)
WorkoutSet ==
    UNION { { WorkoutSummary(0 - age, "Run", Some(5400), Some(F64(84)), Some("Z2")),
              WorkoutSummary(0 - age, "run", None, None, None),
              WorkoutSummary(0 - age, "ride", Some(3600), Some(F64(0)), Some("Z4")),
              WorkoutSummary(0 - age, "swim", Some(1800), Some(F64(30)), None),
              WorkoutSummary(0 - age, "Ride", Some(3000), Some(F64(40)), Some("Z1")),
              WorkoutSummary(0 - age, "run", Some(3600), Some(F64(50)), Some("Z3")),
              WorkoutSummary(0 - age, "run", Some(5100), Some(F64(70)), Some("Z2")) } :
            age \in WorkoutAges }

WorkoutHistories ==
    {<<>>} \cup {<<w>> : w \in WorkoutSet} \cup {<<v, w>> : v \in WorkoutSet, w \in WorkoutSet}

(* No dimensions, the seeded ceilings (90 and 60 minutes), lower ceilings, *)
(* ceilings that are not numbers, and a ceiling of 85.01 minutes           *)
AnalysisTables ==
    { <<>>,
      <<LongRunRow("85", 5, FixtureChange), RideRow(None)>>,
      <<[LongRunRow("55", 5, FixtureChange) EXCEPT !.ceiling_value = "60"],
        [RideRow(None) EXCEPT !.ceiling_value = "50"]>>,
      <<[LongRunRow("85", 5, FixtureChange) EXCEPT !.ceiling_value = "ninety"],
        [RideRow(None) EXCEPT !.ceiling_value = "continuous_45"]>>,
      <<[LongRunRow("85", 5, FixtureChange) EXCEPT !.ceiling_value = "85.01"],
        RideRow(None)>> }

InitAnalysis ==
    /\ now = 0
    /\ dims \in AnalysisTables
    /\ history = <<>>
    /\ dbops = 0
    /\ progressed = None
    /\ call = Idle
    /\ inflight = NoCalls

(* A call of a read-side function: nothing stored changes *)
Analysis(op, args, ret) ==
    /\ call' = [op |-> op, args |-> args, ret |-> ret]
    /\ UNCHANGED <<now, dims, history, dbops, progressed, inflight>>

FromHr ==
    /\ call = Idle
    /\ \E hr \in HeartRates, max_hr \in MaxHeartRates :
        Analysis("from_hr", [hr |-> hr, max_hr |-> max_hr], HrZoneFromHr(hr, max_hr))

Metrics ==
    /\ call = Idle
    /\ \E activity_type \in {"Run", "ride", "swim"}, duration_seconds \in {None, Some(0), Some(3600)},
       distance_meters \in {None, Some(0), Some(10000)},
       average_hr \in {None, Some(0), Some(114), Some(150)},
       average_watts \in {None, Some(200)}, settings \in SettingsSet :
        Analysis("workout_metrics",
                 [activity_type |-> activity_type, duration_seconds |-> duration_seconds,
                  distance_meters |-> distance_meters, average_hr |-> average_hr,
                  average_watts |-> average_watts, settings |-> settings],
                 WorkoutMetricsCompute(activity_type, duration_seconds, distance_meters,
                                       average_hr, average_watts, settings))

Context ==
    /\ call = Idle
    /\ \E workouts \in WorkoutHistories, settings \in SettingsSet :
        Analysis("training_context", [workouts |-> workouts, settings |-> settings, at |-> now],
                 TrainingContextCompute(workouts, settings, now))

FlagsOf ==
    /\ call = Idle
    /\ \E workouts \in WorkoutHistories, settings \in {UserSettings(Some(190), None, 6)} :
        LET loaded == LoadAllDimensions(dims, "none")
            context == TrainingContextCompute(workouts, settings, now) IN
        /\ loaded.ok
        /\ Analysis("training_flags",
                    [workouts |-> workouts, context |-> context, settings |-> settings,
                     dimensions |-> Unwrap(loaded.value), at |-> now],
                    TrainingFlagsCompute(workouts, context, settings, Unwrap(loaded.value), now))

(* ProgressionSummary::compute on the loaded dimensions *)
Summary ==
    /\ call = Idle
    /\ \E ctx \in GuardContexts, adh \in GuardAdherences :
          compute(ctx, Flags(FALSE, FALSE, FALSE), adh)

NextAnalysis == FromHr \/ Metrics \/ Context \/ FlagsOf \/ Summary

SpecAnalysis == InitAnalysis /\ [][NextAnalysis]_vars

-----------------------------------------------------------------------------
(* Properties of the mutations *)

Mutations == {"apply_progression", "apply_regression", "record_ceiling_touch",
              "update_ceiling"}

RowNamed(rows, name) == rows[CHOOSE i \in 1..Len(rows) : rows[i].name = name]

HasRow(rows, name) == \E i \in 1..Len(rows) : rows[i].name = name

(* current_value at or below ceiling_value in the StepConfig ordering *)
WithinCeiling(row) ==
    CASE row.step_config.type = "sequence" ->
            LET c == Position(row.step_config.sequence, row.current_value)
                ceil == Position(row.step_config.sequence, row.ceiling_value) IN
            (IsSome(c) /\ IsSome(ceil)) => Unwrap(c) <= Unwrap(ceil)
      [] row.step_config.type = "increment" ->
            LET c == ParseI32(row.current_value)
                ceil == ParseI32(row.ceiling_value) IN
            (IsSome(c) /\ IsSome(ceil)) => Unwrap(c) <= Unwrap(ceil)
      [] OTHER -> TRUE

AllWithinCeiling(rows) == \A i \in 1..Len(rows) : WithinCeiling(rows[i])

(* C1: a progressive dimension that is at or below its ceiling stays at or *)
(* below it over every apply_progression and apply_regression call, for    *)
(* every starting value and every Increment step size.                     *)
C1_CurrentNeverExceedsCeiling ==
    [][ (call'.op \in {"apply_progression", "apply_regression"} /\ AllWithinCeiling(dims))
            => AllWithinCeiling(dims') ]_vars

(* C2: apply_progression succeeds on a dimension only when some context,   *)
(* flags and adherence make ProgressionSummary::compute decide             *)
(* ProgressAllowed for that dimension on the stored state of the call.     *)
C2_AdvancesOnlyWhenAllowed ==
    [][ (call'.op = "apply_progression" /\ call'.ret.ok)
            => \E ctx \in Contexts, flg \in FlagSets, adh \in Adherences :
                  DecisionFor(SummaryCompute(dims, ctx, flg, adh, now),
                              call'.args.dimension_name) = "ProgressAllowed" ]_vars

(* The calls the program answers with a validation error, told from the    *)
(* stored rows before the call                                             *)
ValidationCase(rows, op, name) ==
    \/ ~HasRow(rows, name)
    \/ /\ op = "apply_progression"
       /\ IsNone(NextValue(RowNamed(rows, name)))
    \/ /\ op = "apply_regression"
       /\ IsNone(PrevValue(RowNamed(rows, name)))
    \/ /\ op = "record_ceiling_touch"
       /\ RowNamed(rows, name).status # "at_ceiling"

(* C8: a mutation with no next value, with no previous value, touching a   *)
(* dimension that is not at its ceiling, or naming an unknown dimension    *)
(* returns a validation error and leaves every stored row and the history  *)
(* unchanged.                                                              *)
C8_ValidationErrorIsNoOp ==
    [][ (call'.op \in Mutations /\ ValidationCase(dims, call'.op, call'.args.dimension_name))
            => /\ ~call'.ret.ok
               /\ call'.ret.err \in ValidationErrors
               /\ dims' = dims
               /\ history' = history ]_vars

C8_RegressAtFloorRefused ==
    /\ call.op = "apply_regression"
    /\ call.ret.err = "No previous value available"
    /\ HasRow(dims, call.args.dimension_name)
    /\ dbops > 0

(* C9: a progress, regress or touch call that returns an error leaves the  *)
(* stored dimension rows unchanged.                                        *)
C9_FailedCallLeavesRowsUnchanged ==
    [][ (call'.op \in {"apply_progression", "apply_regression", "record_ceiling_touch"}
         /\ ~call'.ret.ok)
            => dims' = dims ]_vars

ChangeType(op) ==
    CASE op = "apply_progression" -> "progress"
      [] op = "apply_regression" -> "regress"
      [] op = "record_ceiling_touch" -> "ceiling_touch"
      [] OTHER -> "ceiling_update"

(* The history row a mutation of a row from before to after has to leave *)
ExpectedHistoryRow(op, before, after) ==
    [ dimension_name |-> before.name,
      previous_value |-> IF op = "update_ceiling" THEN before.ceiling_value
                         ELSE before.current_value,
      new_value |-> IF op = "update_ceiling" THEN after.ceiling_value
                    ELSE after.current_value,
      change_type |-> ChangeType(op) ]

AppendsHistoryRow ==
    /\ Len(history') = Len(history) + 1
    /\ SubSeq(history', 1, Len(history)) = history
    /\ HasRow(dims, call'.args.dimension_name)
    /\ LET last == history'[Len(history')]
           expected == ExpectedHistoryRow(call'.op,
                                          RowNamed(dims, call'.args.dimension_name),
                                          RowNamed(dims', call'.args.dimension_name)) IN
       \A f \in DOMAIN expected : last[f] = expected[f]

(* C10: every successful mutation appends exactly one history row of its   *)
(* kind with the previous and the new value, and the stored rows never     *)
(* change without that row being appended.                                 *)
C10_EveryChangeHasItsHistoryRow ==
    [][ /\ (call'.op \in Mutations /\ call'.ret.ok) => AppendsHistoryRow
        /\ dims' # dims => AppendsHistoryRow ]_vars

-----------------------------------------------------------------------------
(* Properties of one evaluation.  They read the arguments and the result   *)
(* of the last ProgressionSummary::compute from call.                      *)

Computed == call.op = "compute"

Progressive(row) == row.step_config.type \in {"sequence", "increment"}

(* Whole days between a timestamp and t, None when there is no timestamp *)
AgeDays(stamp, t) == IF IsSome(stamp) THEN Some(NumDays(t - Unwrap(stamp))) ELSE None

Younger(stamp, t, days) == IsSome(stamp) /\ Unwrap(AgeDays(stamp, t)) < days

(* Another dimension has a last_change_at fewer than 7 days old *)
AnotherChangedWithinWeek(ds, i, t) ==
    \E j \in 1..Len(ds) : j # i /\ Younger(ds[j].last_change_at, t, 7)

(* The dimension's own criteria, as the specification lists them *)
OwnCriteriaUnmet(row, ctx, flg, t) ==
    \/ Younger(row.last_change_at, t, 7)
    \/ flg.volume_spike
    \/ flg.volume_drop
    \/ /\ IsSome(ctx.tsb)
       /\ Unwrap(ctx.tsb) <= (IF row.name \in {"run_interval", "long_run"} THEN -15 ELSE -10)
    \/ row.name = "run_interval" /\ flg.intensity_heavy

(* C3: compute never decides ProgressAllowed for a dimension when the week *)
(* is unstable (adherence below 70% or week_stable false), when another    *)
(* dimension changed fewer than 7 days ago, or when the dimension's own    *)
(* criteria are unmet.                                                     *)
C3_NoProgressWhileBlocked ==
    Computed =>
        LET a == call.args IN
        \A i \in 1..Len(a.dimensions) :
            ( \/ RatioLt(a.adherence.adherence_pct, 7, 10)
              \/ ~a.adherence.week_stable
              \/ AnotherChangedWithinWeek(a.dimensions, i, a.at)
              \/ OwnCriteriaUnmet(a.dimensions[i], a.context, a.flags, a.at) )
            => call.ret.dimensions[i].engine_decision # "ProgressAllowed"

(* A long run held only because TSB is exactly at its floor of -15 *)
C3_HeldAtTsbFloor ==
    /\ Computed
    /\ LET a == call.args IN
       \E i \in 1..Len(a.dimensions) :
           /\ a.dimensions[i].name = "long_run"
           /\ a.context.tsb = Some(-15)
           /\ a.adherence.week_stable
           /\ ~a.flags.volume_spike /\ ~a.flags.volume_drop
           /\ ~AnotherChangedWithinWeek(a.dimensions, i, a.at)
           /\ ~Younger(a.dimensions[i].last_change_at, a.at, 7)
           /\ call.ret.dimensions[i].engine_decision = "Hold"

(* The most recently changed dimension: the greatest last_change_at, and   *)
(* of several equally great the one stored last                            *)
IsMostRecentlyChanged(ds, a) ==
    /\ IsSome(ds[a].last_change_at)
    /\ \A j \in 1..Len(ds) :
          IsSome(ds[j].last_change_at) =>
              \/ Unwrap(ds[j].last_change_at) < Unwrap(ds[a].last_change_at)
              \/ Unwrap(ds[j].last_change_at) = Unwrap(ds[a].last_change_at) /\ j <= a

BelowCeiling(row) == WithinCeiling(row) /\ row.current_value # row.ceiling_value

DueToRegress(row, adh, t) ==
    \/ /\ row.status = "at_ceiling"
       /\ IsSome(row.last_ceiling_touch_at)
       /\ Unwrap(AgeDays(row.last_ceiling_touch_at, t)) >= 21
    \/ adh.consecutive_low_adherence_weeks >= 2 /\ IsSome(PrevValue(row))

(* B is otherwise eligible while A, the most recently changed dimension,   *)
(* changed fewer than 7 days ago                                           *)
OverlapCase(a, b) ==
    LET ds == call.args.dimensions
        adh == call.args.adherence
        t == call.args.at IN
    /\ a # b
    /\ IsMostRecentlyChanged(ds, a)
    /\ Younger(ds[a].last_change_at, t, 7)
    /\ Progressive(ds[b])
    /\ BelowCeiling(ds[b])
    /\ ~DueToRegress(ds[b], adh, t)
    /\ RatioGe(adh.adherence_pct, 7, 10)
    /\ adh.key_adherence_good

(* C5: when the most recently changed dimension A changed fewer than 7     *)
(* days ago, every other progressive dimension B below its ceiling, not    *)
(* due to regress, with adherence of at least 70% and no missed key        *)
(* session gets HoldForNow with a reason that cites the 7-day threshold.   *)
C5_OverlapHoldsOtherDimension ==
    Computed =>
        \A a \in 1..Len(call.args.dimensions), b \in 1..Len(call.args.dimensions) :
            OverlapCase(a, b) =>
                /\ call.ret.dimensions[b].engine_decision = "HoldForNow"
                /\ call.ret.dimensions[b].reason.text
                       = "Another dimension progressed {} days ago (need 7)"

(* B has all its own criteria met and a stable week, and is still held *)
C5_EligibleDimensionHeld ==
    /\ Computed
    /\ \E a \in 1..Len(call.args.dimensions), b \in 1..Len(call.args.dimensions) :
          /\ OverlapCase(a, b)
          /\ ~OwnCriteriaUnmet(call.args.dimensions[b], call.args.context,
                               call.args.flags, call.args.at)
          /\ call.args.adherence.week_stable
          /\ call.ret.dimensions[b].engine_decision = "HoldForNow"

(* The ordered list of the specification, with rule (6) as a parameter *)
PrecedenceList(row, ctx, flg, adh, t, another_changed) ==
    IF ShouldRegress(row, t) THEN "Regress"
    ELSE IF adh.consecutive_low_adherence_weeks >= 2 /\ IsSome(PrevValue(row)) THEN "Regress"
    ELSE IF IsAtCeiling(row)
         THEN (IF MaintenanceDue(row, t) THEN "MaintenanceDue" ELSE "AtCeiling")
    ELSE IF RatioLt(adh.adherence_pct, 7, 10) THEN "HoldDueToUnstableWeek"
    ELSE IF ~adh.key_adherence_good /\ row.name = "long_run" THEN "HoldDueToMissedKeySession"
    ELSE IF another_changed THEN "HoldForNow"
    ELSE IF OwnCriteriaUnmet(row, ctx, flg, t) THEN "Hold"
    ELSE IF ~adh.week_stable THEN "HoldForNow"
    ELSE "ProgressAllowed"

MostRecentIsAnotherWithinWeek(ds, i, t) ==
    \E j \in 1..Len(ds) :
        j # i /\ IsMostRecentlyChanged(ds, j) /\ Younger(ds[j].last_change_at, t, 7)

AtCeilingStatus(row) == Progressive(row) /\ row.status = "at_ceiling"

C22_MaintenanceDue ==
    Computed =>
        LET a == call.args IN
        \A i \in 1..Len(a.dimensions) :
            LET row == a.dimensions[i]
                st == call.ret.dimensions[i] IN
            Progressive(row) =>
                /\ st.maintenance_due
                     <=> /\ row.status = "at_ceiling"
                         /\ \/ IsNone(row.last_ceiling_touch_at)
                            \/ Unwrap(AgeDays(row.last_ceiling_touch_at, a.at))
                                   >= row.maintenance_cadence_days
                /\ (/\ row.status = "at_ceiling"
                    /\ IsNone(row.last_ceiling_touch_at)
                    /\ a.adherence.consecutive_low_adherence_weeks < 2)
                       => st.engine_decision = "MaintenanceDue"

(* An AtCeiling dimension never touched: maintenance due, no regression *)
C22_NeverTouchedIsDue ==
    /\ Computed
    /\ LET a == call.args IN
       \E i \in 1..Len(a.dimensions) :
           /\ AtCeilingStatus(a.dimensions[i])
           /\ IsNone(a.dimensions[i].last_ceiling_touch_at)
           /\ call.ret.dimensions[i].maintenance_due
           /\ call.ret.dimensions[i].engine_decision = "MaintenanceDue"

-----------------------------------------------------------------------------
(* Properties over time *)

(* C4: when apply_progression is called only on a dimension that the       *)
(* summary computed immediately before on the stored state allows to       *)
(* progress, two successful progressions are never fewer than 7 days       *)
(* apart.                                                                  *)
C4_OneProgressionPerWeek ==
    [][ (call'.op = "apply_progression" /\ call'.ret.ok /\ IsSome(progressed))
            => now' - Unwrap(progressed) >= Days(7) ]_vars

(* A second progression, made once the week had passed *)
C4_SecondProgressionAfterWeek ==
    /\ call.op = "apply_progression"
    /\ call.ret.ok
    /\ Len(history) >= 2
    /\ \E i \in 1..(Len(history) - 1) : history[i].change_type = "progress"
    /\ progressed = Some(now)
    /\ now >= Days(7)

-----------------------------------------------------------------------------
(* Effects of the single mutations.  before and after are the stored row   *)
(* of the dimension the call names, before and after the step.             *)

Regulated(row) == row.step_config.type = "regulated"

CalledOn(op) == call'.op = op /\ HasRow(dims, call'.args.dimension_name)

RowBefore == RowNamed(dims, call'.args.dimension_name)
RowAfter == RowNamed(dims', call'.args.dimension_name)

(* C16: no mutation changes the current_value of a Regulated dimension,    *)
(* and apply_progression and apply_regression on one fail and leave the    *)
(* stored state unchanged.                                                 *)
C16_RegulatedNeverAdvances ==
    [][ /\ \A i \in 1..Len(dims) :
              Regulated(dims[i]) =>
                  /\ Len(dims') = Len(dims)
                  /\ dims'[i].current_value = dims[i].current_value
        /\ ((CalledOn("apply_progression") \/ CalledOn("apply_regression"))
            /\ Regulated(RowBefore))
              => /\ ~call'.ret.ok
                 /\ dims' = dims
                 /\ history' = history ]_vars

(* A regression of the Regulated dimension was asked for and refused *)
C16_RegulatedRegressionRefused ==
    /\ call.op = "apply_regression"
    /\ HasRow(dims, call.args.dimension_name)
    /\ Regulated(RowNamed(dims, call.args.dimension_name))
    /\ ~call.ret.ok

(* new is exactly one step of the StepConfig above old *)
OneStepUp(cfg, old, new) ==
    CASE cfg.type = "sequence" ->
            \E i \in 1..(Len(cfg.sequence) - 1) :
                /\ cfg.sequence[i] = old
                /\ \A j \in 1..(i - 1) : cfg.sequence[j] # old
                /\ cfg.sequence[i + 1] = new
      [] cfg.type = "increment" ->
            /\ IsSome(ParseI32(old)) /\ IsSome(ParseI32(new))
            /\ Unwrap(ParseI32(new)) = Unwrap(ParseI32(old)) + cfg.increment
      [] OTHER -> FALSE

(* C18: a successful apply_progression advances current_value by exactly   *)
(* one step, stamps last_change_at, sets status AtCeiling and stamps       *)
(* last_ceiling_touch_at exactly when the new value is at the ceiling, and *)
(* leaves ceiling_value, step_config and maintenance_cadence_days alone.   *)
C18_ProgressionEffect ==
    [][ (CalledOn("apply_progression") /\ call'.ret.ok)
            => /\ OneStepUp(RowBefore.step_config, RowBefore.current_value,
                            RowAfter.current_value)
               /\ call'.ret.value = Some(RowAfter.current_value)
               /\ RowAfter.last_change_at = Some(now)
               /\ IF IsAtCeiling(RowAfter)
                  THEN /\ RowAfter.status = "at_ceiling"
                       /\ RowAfter.last_ceiling_touch_at = Some(now)
                  ELSE /\ RowAfter.status = RowBefore.status
                       /\ RowAfter.last_ceiling_touch_at = RowBefore.last_ceiling_touch_at
               /\ RowAfter.ceiling_value = RowBefore.ceiling_value
               /\ RowAfter.step_config = RowBefore.step_config
               /\ RowAfter.maintenance_cadence_days = RowBefore.maintenance_cadence_days ]_vars

(* run_interval progressed onto its ceiling *)
C18_ProgressedOntoCeiling ==
    /\ call.op = "apply_progression"
    /\ call.ret.ok
    /\ call.args.dimension_name = "run_interval"
    /\ LET row == RowNamed(dims, "run_interval") IN
       /\ row.current_value = row.ceiling_value
       /\ row.status = "at_ceiling"
       /\ row.last_ceiling_touch_at = Some(now)

(* C19: a successful apply_regression steps current_value back by exactly  *)
(* one step, stamps last_change_at and sets status Building whatever it    *)
(* was, and leaves ceiling_value, step_config and last_ceiling_touch_at    *)
(* alone.                                                                  *)
C19_RegressionEffect ==
    [][ (CalledOn("apply_regression") /\ call'.ret.ok)
            => /\ OneStepUp(RowBefore.step_config, RowAfter.current_value,
                            RowBefore.current_value)
               /\ call'.ret.value = Some(RowAfter.current_value)
               /\ RowAfter.last_change_at = Some(now)
               /\ RowAfter.status = "building"
               /\ RowAfter.ceiling_value = RowBefore.ceiling_value
               /\ RowAfter.step_config = RowBefore.step_config
               /\ RowAfter.last_ceiling_touch_at = RowBefore.last_ceiling_touch_at ]_vars

(* A dimension that had reached its ceiling was regressed to Building *)
C19_RegressedFromCeiling ==
    /\ call.op = "apply_regression"
    /\ call.ret.ok
    /\ LET row == RowNamed(dims, call.args.dimension_name) IN
       /\ row.status = "building"
       /\ IsSome(row.last_ceiling_touch_at)
       /\ row.current_value # row.ceiling_value

AtOrBeyond(cfg, current, ceiling) ==
    CASE cfg.type = "sequence" ->
            \E i, j \in 1..Len(cfg.sequence) :
                /\ cfg.sequence[i] = current /\ \A k \in 1..(i - 1) : cfg.sequence[k] # current
                /\ cfg.sequence[j] = ceiling /\ \A k \in 1..(j - 1) : cfg.sequence[k] # ceiling
                /\ i >= j
      [] cfg.type = "increment" ->
            /\ IsSome(ParseI32(current)) /\ IsSome(ParseI32(ceiling))
            /\ Unwrap(ParseI32(current)) >= Unwrap(ParseI32(ceiling))
      [] OTHER -> TRUE

(* C21: update_ceiling sets ceiling_value to the new ceiling and sets the  *)
(* status to AtCeiling when current_value is at or beyond the new ceiling  *)
(* in the StepConfig ordering and to Building otherwise, and leaves        *)
(* current_value, last_change_at and last_ceiling_touch_at alone.          *)
C21_UpdateCeilingEffect ==
    [][ CalledOn("update_ceiling")
            => /\ call'.ret.ok
               /\ RowAfter.ceiling_value = call'.args.new_ceiling
               /\ RowAfter.status =
                     IF AtOrBeyond(RowBefore.step_config, RowBefore.current_value,
                                   call'.args.new_ceiling)
                     THEN "at_ceiling" ELSE "building"
               /\ RowAfter.current_value = RowBefore.current_value
               /\ RowAfter.last_change_at = RowBefore.last_change_at
               /\ RowAfter.last_ceiling_touch_at = RowBefore.last_ceiling_touch_at ]_vars

(* The ceiling of run_interval was lowered onto its current value, which   *)
(* made the never-touched Building dimension AtCeiling                     *)
C21_CeilingLoweredOntoCurrent ==
    /\ call.op = "update_ceiling"
    /\ call.ret.ok
    /\ call.args.dimension_name = "run_interval"
    /\ LET row == RowNamed(dims, "run_interval") IN
       /\ row.current_value = "6:1"
       /\ row.ceiling_value = "6:1"
       /\ row.status = "at_ceiling"
       /\ row.last_ceiling_touch_at = None
       /\ Len(history) = 1

-----------------------------------------------------------------------------
(* Regulated dimensions in one evaluation *)

Longest(options) == CHOOSE x \in {options[i] : i \in 1..Len(options)} :
                        \A j \in 1..Len(options) : options[j] <= x

Shortest(options) == CHOOSE x \in {options[i] : i \in 1..Len(options)} :
                         \A j \in 1..Len(options) : x <= options[j]

(* regulated_duration(tsb) as the specification gives it *)
SelectedDuration(options, tsb) ==
    IF tsb >= 0 THEN Longest(options)
    ELSE IF tsb >= -10 THEN Shortest(options)
    ELSE Min(Shortest(options), 40)

(* C17: with any non-empty option list the regulated duration is the       *)
(* longest option for TSB >= 0, the shortest for -10 <= TSB < 0 and        *)
(* min(shortest, 40) for TSB < -10.                                        *)
C17_DurationSelectedByTsb ==
    Computed =>
        LET a == call.args IN
        \A i \in 1..Len(a.dimensions) :
            ( /\ Regulated(a.dimensions[i])
              /\ Len(a.dimensions[i].step_config.options) > 0
              /\ IsSome(a.context.tsb) )
            => call.ret.dimensions[i].regulated_duration
                   = Some(SelectedDuration(a.dimensions[i].step_config.options,
                                           Unwrap(a.context.tsb)))

-----------------------------------------------------------------------------
(* Malformed rows *)

(* C13: the outcome of a mutation on a dimension (what it returns and the  *)
(* stored row it leaves) is the one it has when that dimension is the only *)
(* row of the table, whatever the other stored rows are.                   *)
C13_OutcomeIndependentOfOtherRows ==
    [][ (call'.op \in Mutations /\ HasRow(dims, call'.args.dimension_name))
            => LET alone == Outcome(call'.op, <<RowBefore>>, history, call'.args, now) IN
               /\ call'.ret = alone.ret
               /\ RowAfter = alone.dims[1] ]_vars

(* Values that do not fit the StepConfig of the row *)
MalformedValues(row) ==
    \/ /\ row.step_config.type = "increment"
       /\ IsNone(ParseI32(row.current_value)) \/ IsNone(ParseI32(row.ceiling_value))
    \/ /\ row.step_config.type = "sequence"
       /\ IsNone(Position(row.step_config.sequence, row.current_value))

(* C14: compute returns one status per input dimension, in input order,    *)
(* and never decides ProgressAllowed for a dimension whose values do not   *)
(* parse or are not in its sequence.                                       *)
C14_SummaryTotalAndConservative ==
    Computed =>
        LET a == call.args IN
        /\ Len(call.ret.dimensions) = Len(a.dimensions)
        /\ \A i \in 1..Len(a.dimensions) :
              /\ call.ret.dimensions[i].name = a.dimensions[i].name
              /\ MalformedValues(a.dimensions[i])
                    => call.ret.dimensions[i].engine_decision # "ProgressAllowed"

-----------------------------------------------------------------------------
(* Two calls at the same time *)

Calls == inflight.calls
BothReturned == \A p \in Procs : Calls[p].pc = "done"
SameDimension == Calls[1].args.dimension_name = Calls[2].args.dimension_name

(* The table after the two calls, one run to its end before the other starts *)
Serial(first, second) ==
    LET after == Outcome(first.op, inflight.before, <<>>, first.args, now) IN
    Outcome(second.op, after.dims, <<>>, second.args, now).dims

(* C11: when two mutations of one dimension have both returned, however    *)
(* their load, save and log steps interleaved, the stored row of that      *)
(* dimension is the one left by running the two calls one after the other  *)
(* in one of the two orders.                                               *)
C11_NoLostUpdate ==
    (BothReturned /\ SameDimension)
        => LET n == Calls[1].args.dimension_name IN
           RowNamed(dims, n) \in {RowNamed(Serial(Calls[1], Calls[2]), n),
                                  RowNamed(Serial(Calls[2], Calls[1]), n)}

(* C12: a step of a mutation on one dimension changes no stored field of   *)
(* a row of another name, and when two mutations of different dimensions   *)
(* have both returned, however they interleaved, the stored rows are those *)
(* left by running them serially, in either order.                         *)
C12_DifferentDimensionsIndependent ==
    /\ [][ \A p \in Procs :
              Calls'[p] # Calls[p]
                 => \A i \in 1..Len(dims) :
                       dims[i].name # Calls'[p].args.dimension_name => dims'[i] = dims[i] ]_vars
    /\ [](BothReturned /\ ~SameDimension
             => /\ dims = Serial(Calls[1], Calls[2])
                /\ dims = Serial(Calls[2], Calls[1]))

(* Both calls have written their row, on different dimensions, and neither *)
(* has logged yet                                                          *)
C12_BothSavedBeforeEitherLogged ==
    /\ \A p \in Procs : Calls[p].pc = "saved"
    /\ ~SameDimension
    /\ \A i \in 1..Len(dims) : dims[i] # inflight.before[i]

-----------------------------------------------------------------------------
(* Runaway progression *)

(* Steps from the current value up to the ceiling: list positions for a    *)
(* Sequence, the numeric gap for an Increment, 0 at or beyond the ceiling  *)
StepsBelowCeiling(row) ==
    CASE row.step_config.type = "sequence" ->
            LET c == Position(row.step_config.sequence, row.current_value)
                ceil == Position(row.step_config.sequence, row.ceiling_value) IN
            IF Unwrap(ceil) > Unwrap(c) THEN Unwrap(ceil) - Unwrap(c) ELSE 0
      [] row.step_config.type = "increment" ->
            LET c == Unwrap(ParseI32(row.current_value))
                ceil == Unwrap(ParseI32(row.ceiling_value)) IN
            IF ceil > c THEN ceil - c ELSE 0
      [] OTHER -> 0

(* C23: progression cannot run away.  Every successful apply_progression   *)
(* brings the current value strictly nearer to the ceiling, so only        *)
(* finitely many succeed in a row, and an apply_progression that fails     *)
(* with no next value finds the dimension AtCeiling and leaves it          *)
(* unchanged.                                                              *)
C23_ProgressionTerminatesAtCeiling ==
    [][ CalledOn("apply_progression")
            => /\ call'.ret.ok => StepsBelowCeiling(RowAfter) < StepsBelowCeiling(RowBefore)
               /\ call'.ret.err = "No next value available"
                     => /\ RowBefore.status = "at_ceiling"
                        /\ dims' = dims ]_vars

-----------------------------------------------------------------------------
(* The progression history *)

(* C24: the history is append-only.  Every step leaves the rows already    *)
(* there as they are and in place, adds at most one row, at the end, and   *)
(* a call that fails adds none.                                            *)
C24_HistoryAppendOnly ==
    [][ /\ Len(history') \in {Len(history), Len(history) + 1}
        /\ \A i \in 1..Len(history) : history'[i] = history[i]
        /\ ~call'.ret.ok => history' = history ]_vars

(* A call failed in log_progression after an earlier call had logged its   *)
(* row: the one row is still the only one                                  *)
C24_FailedCallAddedNoRow ==
    /\ call.op \in Mutations
    /\ call.ret.err = "Failed to log progression"
    /\ Len(history) = 1
    /\ dbops = 2

(***************************************************************************)
(* The analysis computations as functions of their arguments               *)
(***************************************************************************)

(* C25: TrainingContext::compute, TrainingFlags::compute and               *)
(* ProgressionSummary::compute are pure: the result of a call is fixed by  *)
(* its arguments, so the same arguments handed over one day later give the *)
(* same result.                                                            *)
C25_SameArgumentsSameResult ==
    /\ call.op = "training_context" =>
         TrainingContextCompute(call.args.workouts, call.args.settings,
                                call.args.at + Days(1)) = call.ret
    /\ call.op = "training_flags" =>
         TrainingFlagsCompute(call.args.workouts, call.args.context, call.args.settings,
                              call.args.dimensions, call.args.at + Days(1)) = call.ret
    /\ call.op = "compute" =>
         SummaryCompute(call.args.dimensions, call.args.context, call.args.flags,
                        call.args.adherence, call.args.at + Days(1)) = call.ret

(* The workouts, by position, with lo <= whole elapsed days < hi *)
Aged(workouts, t, lo, hi) ==
    {i \in 1..Len(workouts) :
        ElapsedDays(workouts[i], t) >= lo /\ ElapsedDays(workouts[i], t) < hi}

(* C26: missing data is never turned into zero. A derived field of         *)
(* WorkoutMetrics::compute or TrainingContext::compute whose inputs are    *)
(* missing is absent and not the number zero: the metrics of a workout     *)
(* without the inputs, the loads without a scored workout, the weekly      *)
(* volume and the week-over-week delta when the workouts of the week have  *)
(* no duration, the intensity distribution when no workout has a zone.     *)
C26_MissingIsNeverZero ==
    /\ call.op = "workout_metrics" =>
         LET a == call.args
             r == call.ret IN
         /\ a.duration_seconds = None \/ a.distance_meters = None =>
              r.pace_min_per_km = None /\ r.speed_kmh = None
         /\ a.duration_seconds = None \/ a.average_watts = None => r.kj = None
         /\ a.duration_seconds = None \/ a.average_hr = None =>
              r.rtss = None /\ r.cardiac_cost = None
         /\ a.average_hr = None => r.efficiency = None
         /\ a.average_hr = None \/ a.settings.max_hr = None => r.hr_zone = None
    /\ call.op = "training_context" =>
         LET ws == call.args.workouts
             r == call.ret
             week == Aged(ws, call.args.at, 0, 7)
             before == Aged(ws, call.args.at, 7, 14) IN
         /\ (\A i \in week : ws[i].rtss = None) => r.atl = None
         /\ (\A i \in Aged(ws, call.args.at, 0, 42) : ws[i].rtss = None) => r.ctl = None
         /\ r.atl = None \/ r.ctl = None => r.tsb = None
         /\ week # {} /\ (\A i \in week : ws[i].duration_seconds = None) =>
              r.weekly_volume.total_hrs # F64(0)
         /\ before # {} /\ (\A i \in before : ws[i].duration_seconds = None) =>
              r.week_over_week_delta_pct = None
         /\ week # {} /\ (\A i \in week : ws[i].hr_zone = None \/ ws[i].duration_seconds = None) =>
              \E z \in {"z1_pct", "z2_pct", "z3_pct", "z4_pct", "z5_pct"} :
                  r.intensity_distribution[z] # F64(0)

(***************************************************************************)
(* Training load                                                           *)
(***************************************************************************)

(* The stress scores of the workouts at the positions idx, added up; a     *)
(* workout without a score adds nothing                                    *)
RECURSIVE StressSum(_, _)
StressSum(workouts, idx) ==
    IF idx = {} THEN F64(0)
    ELSE LET i == CHOOSE k \in idx : TRUE IN
         F64Add(IF IsSome(workouts[i].rtss) THEN Unwrap(workouts[i].rtss) ELSE F64(0),
                StressSum(workouts, idx \ {i}))

RECURSIVE SecondsSum(_, _)
SecondsSum(workouts, idx) ==
    IF idx = {} THEN 0
    ELSE LET i == CHOOSE k \in idx : TRUE IN
         (IF IsSome(workouts[i].duration_seconds) THEN Unwrap(workouts[i].duration_seconds) ELSE 0)
         + SecondsSum(workouts, idx \ {i})

(* C28: the week-over-week delta is (this week - last week) / last week    *)
(* * 100 when the volume of last week (7 <= elapsed days < 14) is          *)
(* positive, exactly +100 when it is 0 and the volume of this week         *)
(* (elapsed days < 7) is positive, and absent when both are 0; the two     *)
(* weeks together hold the volume of the workouts younger than 14 days.    *)
C28_WeekOverWeekDelta ==
    call.op = "training_context" =>
        LET ws == call.args.workouts
            r == call.ret
            this_week == SecondsSum(ws, Aged(ws, call.args.at, 0, 7))
            last_week == SecondsSum(ws, Aged(ws, call.args.at, 7, 14)) IN
        /\ r.weekly_volume.total_hrs = Ratio(this_week, 3600)
        /\ this_week + last_week = SecondsSum(ws, Aged(ws, call.args.at, 0, 14))
        /\ r.week_over_week_delta_pct =
              IF last_week > 0 THEN Some(Ratio((this_week - last_week) * 100, last_week))
              ELSE IF this_week > 0 THEN Some(F64(100))
              ELSE None

(* Nothing last week and a workout this week: +100 *)
C28_PlusHundred ==
    /\ call.op = "training_context"
    /\ LET ws == call.args.workouts IN
       /\ Len(ws) = 1
       /\ ElapsedDays(ws[1], call.args.at) < 7
       /\ ws[1].duration_seconds = Some(5400)
    /\ call.ret.week_over_week_delta_pct = Some(F64(100))

(***************************************************************************)
(* Heart-rate zones                                                        *)
(***************************************************************************)

(* The zone of the ratio hr / max_hr, compared with whole percents *)
ZoneOfRatio(hr, max_hr) ==
    LET below(pct) == hr * 100 < pct * max_hr IN
    IF below(60) THEN "Z1"
    ELSE IF below(70) THEN "Z2"
    ELSE IF below(80) THEN "Z3"
    ELSE IF below(90) THEN "Z4"
    ELSE "Z5"

CeilingOr(dimensions, name, dflt) ==
    IF \E i \in 1..Len(dimensions) :
           dimensions[i].name = name /\ IsSome(ParseF64(dimensions[i].ceiling_value))
    THEN LET i == CHOOSE k \in 1..Len(dimensions) : dimensions[k].name = name IN
         Unwrap(ParseF64(dimensions[i].ceiling_value))
    ELSE F64(dflt)

(* The sessions of one modality in the last 21 days, by position *)
SessionsIn21(workouts, t, kinds) ==
    {i \in Aged(workouts, t, 0, 21) : workouts[i].activity_type \in kinds}

(* At least one session, and none that lasted the given minutes *)
GapOf(workouts, sessions, minutes) ==
    /\ sessions # {}
    /\ \A i \in sessions :
           \/ workouts[i].duration_seconds = None
           \/ F64Lt(F64(Unwrap(workouts[i].duration_seconds)), F64Mul(minutes, F64(60)))

(* C30: long_run_gap is set exactly when at least one run occurred in the  *)
(* last 21 days and no run in those 21 days lasted at least the ceiling of *)
(* the dimension named long_run in minutes (90 when there is no such       *)
(* dimension or its ceiling is not numeric); long_ride_gap is the same for *)
(* rides with the z2_ride ceiling (default 60); with no run (ride) in the  *)
(* window the flag is not set.                                             *)
C30_LongSessionGaps ==
    call.op = "training_flags" =>
        LET a == call.args
            runs == SessionsIn21(a.workouts, a.at, {"run", "Run"})
            rides == SessionsIn21(a.workouts, a.at, {"ride", "Ride"}) IN
        /\ call.ret.long_run_gap <=>
             GapOf(a.workouts, runs, CeilingOr(a.dimensions, "long_run", 90))
        /\ call.ret.long_ride_gap <=>
             GapOf(a.workouts, rides, CeilingOr(a.dimensions, "z2_ride", 60))
        /\ runs = {} => ~call.ret.long_run_gap
        /\ rides = {} => ~call.ret.long_ride_gap

-----------------------------------------------------------------------------
(* The step model on its own: next_value and prev_value of StepConfig and  *)
(* of ProgressionDimension applied to one stored row.  The rows are the    *)
(* seeded configurations and a sequence that names a value twice, with     *)
(* current values on the list, off the list, at both ends, at the ceiling, *)
(* and texts that are not numbers.                                         *)

StepRows ==
    { [RunIntervalRow(cur, None) EXCEPT !.step_config = SequenceCfg(seq), !.ceiling_value = ceil] :
        seq \in {RunIntervalSequence, RepeatingSequence},
        cur \in {"4:1", "5:1", "6:1", "continuous_45", "3:1"},
        ceil \in {"6:1", "continuous_45"} }
    \cup { [LongRunRow(cur, inc, None) EXCEPT !.ceiling_value = ceil] :
             cur \in {"5", "10", "85", "90", "eighty"}, inc \in {5, 10}, ceil \in {"90", "95"} }
    \cup { [RideRow(None) EXCEPT !.current_value = cur] : cur \in {"30", "45", "60"} }

InitStep ==
    /\ now = 0
    /\ dims \in { <<row>> : row \in StepRows }
    /\ history = <<>>
    /\ dbops = 0
    /\ progressed = None
    /\ call = Idle
    /\ inflight = NoCalls

StepCall(op, ret) ==
    /\ call = Idle
    /\ call' = [op |-> op, args |-> [dim |-> dims[1]], ret |-> ret]
    /\ UNCHANGED <<now, dims, history, dbops, progressed, inflight>>

(* StepConfig::next_value and StepConfig::prev_value *)
ConfigNext == StepCall("step_next_value", StepNextValue(dims[1].step_config, dims[1].current_value))
ConfigPrev == StepCall("step_prev_value", StepPrevValue(dims[1].step_config, dims[1].current_value))

(* ProgressionDimension::next_value and ProgressionDimension::prev_value *)
DimensionNext == StepCall("next_value", NextValue(dims[1]))
DimensionPrev == StepCall("prev_value", PrevValue(dims[1]))

NextStep == ConfigNext \/ ConfigPrev \/ DimensionNext \/ DimensionPrev

SpecStep == InitStep /\ [][NextStep]_vars

(***************************************************************************)
(* The step model                                                          *)
(***************************************************************************)

(* The positions of a value on a list *)
Occurrences(seq, x) == {i \in 1..Len(seq) : seq[i] = x}

(* What a step from current gives by the rule: dir is 1 for the next value *)
(* and -1 for the previous one                                             *)
Stepped(cfg, current, dir) ==
    CASE cfg.type = "sequence" ->
            IF Occurrences(cfg.sequence, current) = {} THEN {None}
            ELSE { IF i + dir \in 1..Len(cfg.sequence) THEN Some(cfg.sequence[i + dir]) ELSE None :
                     i \in Occurrences(cfg.sequence, current) }
      [] cfg.type = "increment" ->
            IF current \notin CanonicalText THEN {None}
            ELSE LET n == CHOOSE k \in ParseRange : ToString(k) = current
                     m == n + dir * cfg.increment IN
                 { IF dir = -1 /\ m <= 0 THEN None ELSE Some(ToString(m)) }
      [] OTHER -> {None}

(* C31: for a Sequence, next_value and prev_value return the token at the  *)
(* next and previous list position and none past either end of the list;   *)
(* for an Increment, next_value is current + step and prev_value is        *)
(* current - step, or none when that result is <= 0; for Regulated both    *)
(* are always none; a dimension at its ceiling has no next value.          *)
C31_StepModel ==
    LET d == call.args.dim IN
    /\ call.op = "step_next_value" => call.ret \in Stepped(d.step_config, d.current_value, 1)
    /\ call.op \in {"step_prev_value", "prev_value"} =>
           call.ret \in Stepped(d.step_config, d.current_value, -1)
    /\ call.op = "next_value" =>
           IF IsAtCeiling(d) THEN call.ret = None
           ELSE call.ret \in Stepped(d.step_config, d.current_value, 1)
    /\ call.op \in {"step_next_value", "step_prev_value", "next_value", "prev_value"}
       /\ d.step_config.type = "regulated" => call.ret = None

(* The last token of the list has no next value *)
C31_NoneBeyondTheEnd ==
    /\ call.op = "step_next_value"
    /\ call.args.dim.step_config = SequenceCfg(RunIntervalSequence)
    /\ call.args.dim.current_value = "continuous_45"
    /\ call.ret = None

-----------------------------------------------------------------------------
(* The analysis pipeline: the command computes the training context and    *)
(* the flags from the stored workouts, the adherence summary from the      *)
(* workouts of the last 7 days, and hands all three with the stored        *)
(* dimensions to ProgressionSummary::compute.  The workouts here carry no  *)
(* stress score, so the TSB of the context is absent.                      *)

(* compute_adherence: the workouts with started_at >= now - 7 days *)
ComputeAdherence(workouts, settings, t) ==
    LET rows == SelectSeq(workouts, LAMBDA w : t - w.started_at <= Days(7))
        total_completed == Len(rows)
        total_expected == settings.training_days_per_week
        key_expected == 1
        key_completed ==
            Len(SelectSeq(rows, LAMBDA w : /\ ToLowercase(w.activity_type) = "run"
                                          /\ IsSome(w.duration_seconds)
                                          /\ Unwrap(w.duration_seconds) > 45 * 60))
        consecutive_low_weeks == 0 IN
    AdherenceCompute(total_expected, total_completed, key_expected, key_completed,
                     consecutive_low_weeks)

PipelineAges == {0, Days(3), Days(10), Days(16)}

PipelineWorkouts ==
    UNION { { WorkoutSummary(0 - age, "run", Some(3600), None, None),
              WorkoutSummary(0 - age, "ride", Some(1800), None, None) } : age \in PipelineAges }

PipelineHistories ==
    {<<>>} \cup {<<w>> : w \in PipelineWorkouts}
    \cup {<<v, w>> : v \in PipelineWorkouts, w \in PipelineWorkouts}
    \cup {<<w, w, w, w, w, w>> : w \in PipelineWorkouts}

PipelineSettings == {UserSettings(Some(190), None, 6), UserSettings(Some(190), None, 1)}

PipelineTables ==
    { <<LongRunRow("85", 5, change), RideRow(None)>> : change \in {None, FixtureChange} }
    \cup { <<RunIntervalRow(cur, FixtureChange), RideRow(None)>> : cur \in {"4:1", "5:1"} }

InitPipeline ==
    /\ now = 0
    /\ dims \in PipelineTables
    /\ history = <<>>
    /\ dbops = 0
    /\ progressed = None
    /\ call = Idle
    /\ inflight = NoCalls

(* analyze_workout, from the training context to the progression summary *)
AnalyzeWorkout ==
    /\ call = Idle
    /\ \E workouts \in PipelineHistories, settings \in PipelineSettings :
         LET loaded == LoadAllDimensions(dims, "none")
             training_context == TrainingContextCompute(workouts, settings, now)
             flags == TrainingFlagsCompute(workouts, training_context, settings,
                                           Unwrap(loaded.value), now)
             adherence == ComputeAdherence(workouts, settings, now) IN
         /\ loaded.ok
         /\ call' = [op |-> "analyze_workout",
                     args |-> [workouts |-> workouts, settings |-> settings,
                               dimensions |-> Unwrap(loaded.value), at |-> now],
                     ret |-> SummaryCompute(Unwrap(loaded.value), training_context, flags,
                                            adherence, now)]
         /\ UNCHANGED <<now, dims, history, dbops, progressed, inflight>>

NextPipeline == AnalyzeWorkout

SpecPipeline == InitPipeline /\ [][NextPipeline]_vars

(***************************************************************************)
(* Low adherence as a trigger of regression                                *)
(***************************************************************************)

(* The athlete did fewer than 70% of the expected workouts in the 7 days   *)
(* that began first whole days ago                                         *)
LowWeek(workouts, settings, t, first) ==
    Cardinality(Aged(workouts, t, first, first + 7)) * 10 < 7 * settings.training_days_per_week

(* C32: when the adherence of the athlete has been low for 2 or more       *)
(* consecutive weeks, the summary the analysis pipeline computes decides    *)
(* Regress for a Building dimension that has a previous value.             *)
C32_LowAdherenceRegresses ==
    call.op = "analyze_workout" =>
        LET a == call.args IN
        LowWeek(a.workouts, a.settings, a.at, 0) /\ LowWeek(a.workouts, a.settings, a.at, 7) =>
            \A i \in 1..Len(a.dimensions) :
                /\ a.dimensions[i].step_config.type # "regulated"
                /\ a.dimensions[i].status = "building"
                /\ PrevValue(a.dimensions[i]) # None
                => call.ret.dimensions[i].engine_decision = "Regress"

-----------------------------------------------------------------------------
(* SpecLifecycle: the four mutations on one progressive dimension, three   *)
(* of them in a row, with ceilings below the current value among the new   *)
(* ceilings.  The rows are stored with the status their values give, or    *)
(* with the status Regressing.                                             *)

LifecycleRows ==
    { [RunIntervalRow(cur, FixtureChange) EXCEPT !.status = st] :
        cur \in {"4:1", "5:1", "6:1"}, st \in {"building", "regressing"} }
    \cup { [RunIntervalRow("continuous_45", FixtureChange) EXCEPT !.status = "at_ceiling"] }
    \cup { [LongRunRow(cur, inc, FixtureChange) EXCEPT !.status = st] :
             cur \in {"80", "85"}, inc \in {5, 10}, st \in {"building", "regressing"} }
    \cup { [LongRunRow("90", 5, FixtureChange) EXCEPT !.status = "at_ceiling"] }

LifecycleCeilings == {"4:1", "6:1", "80", "85"}

InitLifecycle ==
    /\ now = 0
    /\ dims \in { <<row>> : row \in LifecycleRows }
    /\ history = <<>>
    /\ dbops = 0
    /\ progressed = None
    /\ call = Idle
    /\ inflight = NoCalls

ProgressL == \E w \in TriggerWorkoutIds : progress_dimension(dims[1].name, w, "none", MaxDbOps + 1)
RegressL == regress_dimension(dims[1].name, "none", MaxDbOps + 1)
TouchL == touch_ceiling(dims[1].name, "none", MaxDbOps + 1)
SetCeilingL ==
    \E c \in LifecycleCeilings : set_dimension_ceiling(dims[1].name, c, "none", MaxDbOps + 1)

NextLifecycle == ProgressL \/ RegressL \/ TouchL \/ SetCeilingL

SpecLifecycle == InitLifecycle /\ [][NextLifecycle]_vars

(***************************************************************************)
(* The stored status                                                       *)
(***************************************************************************)

(* The stored status is the one the values give *)
StatusAgrees(row) ==
    row.step_config.type # "regulated" =>
        row.status = IF IsAtCeiling(row) THEN "at_ceiling" ELSE "building"

(* C33: the stored status of a progressive dimension is AtCeiling exactly  *)
(* when its current_value is at or beyond its ceiling_value, and Building  *)
(* otherwise: a mutation on a row for which that holds leaves a row for    *)
(* which it holds.                                                         *)
C33_StatusAgreesWithValues ==
    [][ \A i \in 1..Len(dims) : StatusAgrees(dims[i]) => StatusAgrees(dims'[i]) ]_vars

(* C34: the status Regressing is never entered: no mutation stores it on a *)
(* row that did not have it; and a row stored with it keeps it through     *)
(* apply_progression unless the progression reaches the ceiling.           *)
C34_RegressingNeverEntered ==
    [][ /\ \A i \in 1..Len(dims) :
              dims'[i].status = "regressing" => dims[i].status = "regressing"
        /\ \A i \in 1..Len(dims) :
              dims[i].status \in {"building", "at_ceiling"} =>
                  dims'[i].status \in {"building", "at_ceiling"}
        /\ (CalledOn("apply_progression") /\ call'.ret.ok /\ RowBefore.status = "regressing")
              => RowAfter.status = IF IsAtCeiling(RowAfter) THEN "at_ceiling" ELSE "regressing"
      ]_vars

(* A row stored as Regressing was progressed below its ceiling and is      *)
(* still Regressing                                                        *)
C34_ProgressedWhileRegressing ==
    /\ call.op = "apply_progression" /\ call.ret.ok
    /\ dims[1].status = "regressing"
    /\ dims[1].current_value = "5:1"
    /\ Len(history) = 1

-----------------------------------------------------------------------------
(* SpecDecide: the caller computes the summary of the stored table and     *)
(* carries out what it decides: progress_dimension on a dimension decided  *)
(* ProgressAllowed, regress_dimension on one decided Regress.  The rows    *)
(* are ones the commands leave behind: below the ceiling, or with the      *)
(* ceiling set onto the current value and touched some days ago.           *)

DecideRows ==
    { RunIntervalRow(cur, lc) : cur \in {"4:1", "5:1", "6:1"}, lc \in ChangeTimes }
    \cup { Row(1, "run_interval", cur, cur, SequenceCfg(RunIntervalSequence), "at_ceiling",
               Ago(Days(RegressAfterDays)), lt, RunIntervalCadence) :
             cur \in {"4:1", "6:1", "continuous_45"}, lt \in TouchTimes }
    \cup { LongRunRow(cur, 5, lc) : cur \in {"5", "85"}, lc \in ChangeTimes }
    \cup { Row(2, "long_run", cur, cur, IncrementCfg(5), "at_ceiling",
               Ago(Days(RegressAfterDays)), lt, LongRunCadence) :
             cur \in {"5", "90"}, lt \in TouchTimes }

DecideAdherences == {AdherenceCompute(4, 3, 1, 1, w) : w \in {0, 2}}

InitDecide ==
    /\ now = 0
    /\ dims \in { <<row>> : row \in DecideRows }
    /\ history = <<>>
    /\ dbops = 0
    /\ progressed = None
    /\ call = Idle
    /\ inflight = NoCalls

EvaluateDecide ==
    /\ call = Idle
    /\ \E ctx \in GuardContexts, adh \in DecideAdherences :
          compute(ctx, Flags(FALSE, FALSE, FALSE), adh)

ProgressDecided ==
    /\ call.op = "compute"
    /\ \E n \in Names, w \in TriggerWorkoutIds :
          /\ DecisionFor(call.ret, n) = "ProgressAllowed"
          /\ progress_dimension(n, w, "none", MaxDbOps)

RegressDecided ==
    /\ call.op = "compute"
    /\ \E n \in Names :
          /\ DecisionFor(call.ret, n) = "Regress"
          /\ regress_dimension(n, "none", MaxDbOps)

NextDecide == EvaluateDecide \/ ProgressDecided \/ RegressDecided

SpecDecide == InitDecide /\ [][NextDecide]_vars

(***************************************************************************)
(* Decisions that can be carried out                                       *)
(***************************************************************************)

(* The status a summary reports for a dimension *)
StatusFor(sm, name) ==
    sm.dimensions[CHOOSE i \in 1..Len(sm.dimensions) : sm.dimensions[i].name = name]

(* C35: whenever the summary reports ProgressAllowed for a dimension, the  *)
(* reported next_value is present and an immediate apply_progression on    *)
(* the dimension succeeds and stores that value; whenever it reports       *)
(* Regress, an immediate apply_regression on the dimension succeeds.       *)
C35_DecisionsCanBeExecuted ==
    [][ /\ call'.op = "compute" =>
              \A i \in 1..Len(call'.ret.dimensions) :
                  call'.ret.dimensions[i].engine_decision = "ProgressAllowed"
                      => call'.ret.dimensions[i].next_value # None
        /\ (call.op = "compute" /\ CalledOn("apply_progression")
            /\ DecisionFor(call.ret, call'.args.dimension_name) = "ProgressAllowed")
              => /\ call'.ret = Ok(Unwrap(StatusFor(call.ret, call'.args.dimension_name).next_value))
                 /\ Some(RowAfter.current_value)
                      = StatusFor(call.ret, call'.args.dimension_name).next_value
        /\ (call.op = "compute" /\ CalledOn("apply_regression")
            /\ DecisionFor(call.ret, call'.args.dimension_name) = "Regress")
              => call'.ret.ok
      ]_vars

(* C36: a single summary never reports ProgressAllowed for more than one   *)
(* dimension.                                                              *)
C36_OneProgressAllowedPerSummary ==
    call.op = "compute" =>
        Cardinality({i \in 1..Len(call.ret.dimensions) :
                        call.ret.dimensions[i].engine_decision = "ProgressAllowed"}) <= 1

(***************************************************************************)
(* History and stored state                                                *)
(***************************************************************************)

(* The positions of the progress and regress rows of a dimension *)
ValueChanges(hist, name) ==
    {k \in 1..Len(hist) : /\ hist[k].dimension_name = name
                          /\ hist[k].change_type \in {"progress", "regress"}}

(* No call is between its save_dimension and its log_progression *)
Settled == \A p \in Procs : inflight.calls[p].pc \in {"idle", "done"}

(* C37: under every interleaving of concurrent mutations, once no call is  *)
(* between its two statements, the stored current_value of a dimension is  *)
(* the new_value of its latest progress or regress row (its initial value  *)
(* when there is none), and the previous_value of each progress or regress *)
(* row is the new_value of the progress or regress row before it.          *)
C37_HistoryAgreesWithState ==
    Settled =>
        \A i \in 1..Len(dims) :
            LET changes == ValueChanges(history, dims[i].name) IN
            /\ dims[i].current_value
                 = IF changes = {}
                   THEN inflight.before[i].current_value
                   ELSE history[CHOOSE k \in changes : \A m \in changes : m <= k].new_value
            /\ \A k \in changes, m \in changes :
                 (k < m /\ \A n \in changes : ~(k < n /\ n < m))
                     => history[m].previous_value = history[k].new_value

-----------------------------------------------------------------------------
(* SpecOverlap: one dimension changed a few days ago, the clock runs on    *)
(* past the seventh day after that change, nothing is mutated, and the     *)
(* summary is computed again and again on the same table.                  *)

RecentChanges == {Ago(0), Ago(Days(3)), Ago(Days(OverlapDays) - 1)}
EarlierChanges == {None, Ago(Days(FixtureChangeDaysAgo)), Ago(Days(OverlapDays) - 1)}

OverlapTables ==
    { <<RunIntervalRow("4:1", a), LongRunRow("85", 5, b)>> :
        a \in RecentChanges, b \in EarlierChanges }
    \cup { <<RunIntervalRow("4:1", b), LongRunRow("85", 5, a)>> :
             a \in RecentChanges, b \in EarlierChanges }

OverlapHorizon == Days(7) + TicksPerDay
OverlapContexts == {[tsb |-> None], [tsb |-> Some(-15)]}
OverlapAdherences == {AdherenceCompute(4, 3, 1, 1, 0), AdherenceCompute(4, 4, 1, 1, 0)}

InitOverlap ==
    /\ now = 0
    /\ dims \in OverlapTables
    /\ history = <<>>
    /\ dbops = 0
    /\ progressed = None
    /\ call = Idle
    /\ inflight = NoCalls

PassTime == Tick(1, OverlapHorizon)

EvaluateAgain ==
    \E ctx \in OverlapContexts, adh \in OverlapAdherences :
        compute(ctx, Flags(FALSE, FALSE, FALSE), adh)

NextOverlap == PassTime \/ EvaluateAgain

SpecOverlap == InitOverlap /\ [][NextOverlap]_vars

(* At time t the summary of the table holds row i back by the overlap rule *)
HeldByOverlap(ds, ctx, flg, adh, i, t) ==
    LET sm == SummaryCompute(ds, ctx, flg, adh, t) IN
    /\ sm.dimensions[i].engine_decision = "HoldForNow"
    /\ IsSome(sm.last_progression_dimension)
    /\ Unwrap(sm.last_progression_dimension) # ds[i].name
    /\ sm.days_since_any_progression < 7

(* The time of the latest change of any dimension of the table *)
LatestChange(ds) ==
    CHOOSE c \in {Unwrap(ds[i].last_change_at) :
                    i \in {k \in 1..Len(ds) : IsSome(ds[k].last_change_at)}} :
        \A i \in 1..Len(ds) :
            IsSome(ds[i].last_change_at) => Unwrap(ds[i].last_change_at) <= c

(* C38: with the table, context, flags and adherence unchanged, a          *)
(* dimension that an earlier summary held HoldForNow because another       *)
(* dimension changed fewer than 7 days before is, in every summary         *)
(* computed 7 whole days or more after that change, decided by the rules   *)
(* that remain: Hold when its own criteria are unmet, HoldForNow for a     *)
(* week that is not stable, ProgressAllowed otherwise.                     *)
C38_OverlapHoldIsTemporary ==
    call.op = "compute" =>
        LET a == call.args
            ds == a.dimensions IN
        \A i \in 1..Len(ds) :
            (/\ \E t \in 0..a.at :
                   HeldByOverlap(ds, a.context, a.flags, a.adherence, i, t)
             /\ a.at - LatestChange(ds) >= 7 * TicksPerDay)
            => LET st == call.ret.dimensions[i] IN
               IF ~CheckCriteria(ds[i].name, ds[i], a.context, a.flags, a.at)[1]
               THEN st.engine_decision = "Hold"
               ELSE IF ~a.adherence.week_stable
               THEN /\ st.engine_decision = "HoldForNow"
                    /\ st.reason = Reason("Week not stable (missed sessions or low adherence)", <<>>)
               ELSE st.engine_decision = "ProgressAllowed"

(* a dimension held by the overlap rule earlier is allowed to progress *)
C38_HeldThenAllowed ==
    /\ call.op = "compute"
    /\ \E i \in 1..Len(call.args.dimensions) :
          /\ \E t \in 0..call.args.at :
                HeldByOverlap(call.args.dimensions, call.args.context, call.args.flags,
                              call.args.adherence, i, t)
          /\ call.ret.dimensions[i].engine_decision = "ProgressAllowed"

-----------------------------------------------------------------------------
(* SpecArrival: one progressive dimension whose ceiling is touched, raised *)
(* and brought down again while weeks pass, the summary being computed     *)
(* after any call.                                                         *)

ArrivalRows ==
    { LongRunRow("85", 5, FixtureChange),
      [LongRunRow("90", 5, FixtureChange) EXCEPT !.status = "at_ceiling"],
      RunIntervalRow("6:1", FixtureChange),
      [RunIntervalRow("continuous_45", FixtureChange) EXCEPT !.status = "at_ceiling"] }

(* The ceilings the athlete moves between, per dimension *)
ArrivalCeilings(name) == IF name = "long_run" THEN {"90", "95"} ELSE {"6:1", "continuous_45"}
ArrivalHorizon == Days(RegressAfterDays + 7)

InitArrival ==
    /\ now = 0
    /\ dims \in { <<row>> : row \in ArrivalRows }
    /\ history = <<>>
    /\ dbops = 0
    /\ progressed = None
    /\ call = Idle
    /\ inflight = NoCalls

PassWeekA == Tick(Days(7), ArrivalHorizon)
ProgressA == \E w \in TriggerWorkoutIds : progress_dimension(dims[1].name, w, "none", MaxDbOps + 1)
TouchA == touch_ceiling(dims[1].name, "none", MaxDbOps + 1)
SetCeilingA ==
    \E c \in ArrivalCeilings(dims[1].name) :
        set_dimension_ceiling(dims[1].name, c, "none", MaxDbOps + 1)
EvaluateA == compute([tsb |-> None], Flags(FALSE, FALSE, FALSE), AdherenceCompute(4, 4, 1, 1, 0))

NextArrival == PassWeekA \/ ProgressA \/ TouchA \/ SetCeilingA \/ EvaluateA

SpecArrival == InitArrival /\ [][NextArrival]_vars

(* The step is a call that makes its dimension AtCeiling: an               *)
(* apply_progression that steps onto the ceiling, or an update_ceiling     *)
(* that brings the ceiling down to the current value                       *)
Arrives ==
    /\ call'.op \in {"apply_progression", "update_ceiling"}
    /\ call'.ret.ok
    /\ HasRow(dims, call'.args.dimension_name)
    /\ RowBefore.status # "at_ceiling"
    /\ RowAfter.status = "at_ceiling"
    /\ RowAfter.current_value = RowAfter.ceiling_value

(* C39: no summary computed on the stored state fewer than 21 days after   *)
(* the call that made a dimension AtCeiling decides Regress for that       *)
(* dimension when adherence is not low.                                    *)
C39_NoRegressOnArrival ==
    [][ Arrives =>
          \A t \in now..(now + Days(RegressAfterDays) - 1) :
              DecisionFor(SummaryCompute(dims', [tsb |-> None], Flags(FALSE, FALSE, FALSE),
                                         AdherenceCompute(4, 4, 1, 1, 0), t),
                          call'.args.dimension_name) # "Regress" ]_vars

(***************************************************************************)
(* Training load fields                                                    *)
(***************************************************************************)

(* C40: every TrainingContext has TSB exactly when it has ATL, and has CTL *)
(* whenever it has ATL: the workouts of the last 7 days are among those of *)
(* the last 42, and no stress score is negative.                           *)
C40_TsbExactlyWithAtl ==
    call.op = "training_context" =>
        /\ IsSome(call.ret.tsb) <=> IsSome(call.ret.atl)
        /\ IsSome(call.ret.atl) => IsSome(call.ret.ctl)

(* a context with ATL and TSB whose 42-day window holds a scored workout   *)
(* that the 7-day window does not                                          *)
C40_BothLoadsPresent ==
    /\ call.op = "training_context"
    /\ IsSome(call.ret.atl)
    /\ IsSome(call.ret.tsb)
    /\ \E i \in 1..Len(call.args.workouts) :
          LET w == call.args.workouts[i] IN
          /\ ElapsedDays(w, call.args.at) >= 7
          /\ ElapsedDays(w, call.args.at) < 42
          /\ IsSome(w.rtss)
          /\ F64Lt(F64(0), Unwrap(w.rtss))

=============================================================================
